---- MODULE Spec2Model ----
(***************************************************************************)
(* Product-catalog coverage analysis and resumable download engine of      *)
(* Ginan-UI (app/models/dl_products.py) together with the background       *)
(* workers that drive it (app/utils/workers.py).                           *)
(*                                                                         *)
(* The specifications of the module:                                       *)
(*   SpecCov  get_valid_analysis_centers applied to bounded record sets    *)
(*   Spec     a worker run (PPPWorker / DownloadMetadataWorker) executing  *)
(*            download_metadata / download_products / download_file        *)
(*            against a products directory and a nondeterministic server,  *)
(*            interleaved with stop() requests                             *)
(*   FairSpec Spec with a worker thread that is not starved                *)
(*   SpecCat   get_product_dataframe on a bounded archive listing          *)
(*   SpecCodec the filename codec applied to listing entries and rows      *)
(*   SpecArch  the archival calls on a bounded products directory          *)
(*   SpecCalls Process requests, get_brdc_urls / download_metadata, the    *)
(*             progress events of a transfer, Execution construction       *)
(***************************************************************************)
EXTENDS Integers, Sequences, FiniteSets, TLC

VARIABLES
    \* ---- coverage analysis ----
    data,        \* the DataFrame handed to get_valid_analysis_centers (set of rows)
    cov,         \* its outcome: [state, raised, centers]
    \* ---- download engine / worker ----
    disk,        \* products directory: per file the .part, compressed and final files
    corrupt,     \* compressed files whose remote payload does not decompress
    kind,        \* which worker is running: "PPP" or "Meta"
    stop,        \* the worker's _stop flag
    pc,          \* position of the worker thread
    batch,       \* download_products call in progress: 0 none, 1 metadata, 2 products
    pos,         \* index of the current url in the batch's downloads list
    att,         \* loop variable i of the retry loop in download_file
    resp,        \* response being consumed: [status, body, mode, total, downloaded]
    outcome,     \* per file: how its download_file call of this run ended
    cur,         \* bookkeeping of the download_file call in progress or just ended
    signals,     \* terminal signals emitted by the run, in order
    stopInBatch, \* stop() arrived while download_products was executing
    snap,        \* directory at entry of the current batch, kept when every target was present
    \* ---- catalog build ----
    win,         \* arguments of get_product_dataframe: [start, end, given, formats]
    listing,     \* the archive: per GPS week the filenames of its listing page, in page order
    cat,         \* the build: weeks to crawl, weeks fetched, rows collected, result
    \* ---- filename codec ----
    entry,       \* a listing entry [week, name] to decode and rebuild
    record,      \* a product row to encode and decode again
    trip,        \* the round trip made: [state, ok, rec, name]
    \* ---- archival ----
    pdir,        \* products directory by name: [exists, top, tables, archived]
    posix,       \* the platform matches glob patterns case-sensitively
    sel,         \* [current, last] selection, or [current, last] RINEX path
    ares,        \* the archival call made: [state, before, path, moved, failed]
    \* ---- entry points called from the interactive thread ----
    ui,          \* MainWindow: position in _on_process_clicked, is_processing, clicks made
    meta,        \* the module's METADATA list and the get_brdc_urls / download_metadata call made
    prog,        \* a transfer of download_file with a progress callback: counts and latest event
    exe          \* an Execution construction: config and template files, outcome

covVars == <<data, cov>>
dlVars  == <<disk, corrupt, kind, stop, pc, batch, pos, att, resp, outcome,
             cur, signals, stopInBatch, snap>>
catVars == <<win, listing, cat>>
codecVars == <<entry, record, trip>>
archVars == <<pdir, posix, sel, ares>>
callVars == <<ui, meta, prog, exe>>
auxVars == <<catVars, codecVars, archVars, callVars>>
vars    == <<data, cov, disk, corrupt, kind, stop, pc, batch, pos, att, resp,
             outcome, cur, signals, stopInBatch, snap, win, listing, cat,
             entry, record, trip, pdir, posix, sel, ares, ui, meta, prog, exe>>

(***************************************************************************)
(* Bounds                                                                  *)
(***************************************************************************)
MaxRows == 3      \* rows of a record set
MaxDay == 3       \* record dates are days 0..MaxDay
RemoteLen == 2    \* chunks of a remote file

(***************************************************************************)
(* Coverage analysis: get_valid_analysis_centers                           *)
(***************************************************************************)
Centers == {"COD", "GRG"}
Formats == {"SP3", "CLK"}
Periods == {1, 2}

\* The columns of a product row that the analysis reads.
Rows ==
    [analysis_center : Centers, solution_type : {"FIN"}, format : Formats,
     date : 0..MaxDay, period : Periods]

RECURSIVE RowSets(_)
RowSets(n) ==
    IF n = 0 THEN {{}}
    ELSE LET smaller == RowSets(n - 1)
         IN  smaller \cup {s \cup {r} : s \in smaller, r \in Rows}

\* data.groupby(["analysis_center", "solution_type", "format"])
GroupKeys(d) == {<<r.analysis_center, r.solution_type, r.format>> : r \in d}

GroupOf(d, key) ==
    {r \in d : <<r.analysis_center, r.solution_type, r.format>> = key}

\* group.sort_values("date").reset_index(drop=True): every ordering of the
\* group by ascending date (rows of equal date in either order: the default
\* sort kind is not stable).
SortedByDate(g) ==
    {s \in [1..Cardinality(g) -> g] :
        /\ \A i, j \in 1..Cardinality(g) : i # j => s[i] # s[j]
        /\ \A i \in 1..(Cardinality(g) - 1) : s[i].date <= s[i + 1].date}

\* the test of line 156 over range(len(group) - 1)
GapIn(s) ==
    \E i \in 1..(Len(s) - 1) : s[i].date + s[i].period < s[i + 1].date

RaisesOnEmpty(d, order) ==
    IF d = {} \/ \E key \in GroupKeys(d) : GapIn(order[key])
    THEN [state |-> "done", raised |-> TRUE, centers |-> {}]
    ELSE [state |-> "done", raised |-> FALSE,
          centers |-> {r.analysis_center : r \in d}]

\* Outcome of get_valid_analysis_centers when the groups are scanned in the
\* orders `order` (key -> sorted group).  At the first gap line 158 evaluates
\* `Series and Series`, which raises ValueError (the truth value of a
\* Series is ambiguous), so the call ends there; without any gap `data` is
\* never filtered and every center of the input is reported.
get_valid_analysis_centers(d, order) ==
    IF \E key \in GroupKeys(d) : GapIn(order[key])
    THEN [state |-> "done", raised |-> TRUE, centers |-> {}]
    ELSE [state |-> "done", raised |-> FALSE,
          centers |-> {r.analysis_center : r \in d}]

CovIdle == [state |-> "idle", raised |-> FALSE, centers |-> {}]

Analyze ==
    /\ cov.state = "idle"
    /\ \E order \in [GroupKeys(data) -> UNION {SortedByDate(GroupOf(data, k)) : k \in GroupKeys(data)}] :
          /\ \A k \in GroupKeys(data) : order[k] \in SortedByDate(GroupOf(data, k))
          /\ cov' = get_valid_analysis_centers(data, order)
    /\ UNCHANGED <<data, dlVars, auxVars>>

\* InputController._on_cddis_ready (input_controller.py lines 270-288) on
\* the catalog `data`: the valid centers are listed in the PPP_provider
\* combo box (list(set): any order), or the single item "None" when there
\* is none; an exception of the analysis leaves the handler before the
\* combo box is touched.
OnCddisReady ==
    /\ cov.state = "idle"
    /\ \E order \in [GroupKeys(data) -> UNION {SortedByDate(GroupOf(data, k)) : k \in GroupKeys(data)}] :
          /\ \A k \in GroupKeys(data) : order[k] \in SortedByDate(GroupOf(data, k))
          /\ \E r \in {get_valid_analysis_centers(data, order)} :
             \E items \in [1..Cardinality(r.centers) -> r.centers] :
                /\ \A c \in r.centers : \E i \in DOMAIN items : items[i] = c
                /\ cov' = [state |-> "ready", raised |-> r.raised, centers |-> r.centers,
                           PPP_provider |-> IF r.raised THEN <<>>
                                            ELSE IF r.centers = {} THEN <<"None">>
                                            ELSE items]
    /\ UNCHANGED <<data, dlVars, auxVars>>

(***************************************************************************)
(* Download engine: files, directory and server                            *)
(***************************************************************************)
RetriesOffByOne == 3 + 1

MAX_RETRIES == 3

\* One metadata url (plain file on a public mirror), one pre-2237 product
\* (.Z on the archive) and one broadcast-ephemeris file (.gz on the archive).
Files == {"atx", "sp3", "brdc"}

\* downloads of download_metadata (dl_urls = METADATA, no product rows)
MetaList == <<"atx">>

\* downloads of the worker's download_products call: product rows, then the
\* BRDC urls passed as dl_urls
ProdList == <<"sp3", "brdc">>

\* filename suffix of the url: decides `compressed` in download_file and the
\* branch taken by extract_file
Codec(f) == CASE f = "atx" -> "none" [] f = "sp3" -> "lzw" [] f = "brdc" -> "gzip"

Compressed(f) == Codec(f) # "none"

\* Host part of the url of f: the metadata file lives on a public mirror,
\* products and broadcast ephemerides under BASE_URL on the archive.
Host(f) ==
    CASE f = "atx" -> "files.igs.org"
      [] f = "sp3" -> "cddis.nasa.gov"
      [] f = "brdc" -> "cddis.nasa.gov"

SessionForAll(f) == TRUE

\* url.startswith(BASE_URL): session.get (sesh.auth set) when it holds,
\* plain requests.get otherwise.
UnderBase(f) == f \in {"sp3", "brdc"}

NoFile == [ex |-> FALSE, data |-> <<>>]
File(d) == [ex |-> TRUE, data |-> d]

\* The bytes the server holds at the url of f, one element per chunk.
Remote(f) == [i \in 1..RemoteLen |-> i]

Prefix(s, n) == SubSeq(s, 1, n)
Suffix(s, n) == SubSeq(s, n + 1, Len(s))

\* gzip / LZW decoding of a payload: defined on the complete, undamaged
\* remote payload only.
Decompress(f, payload) ==
    IF payload = Remote(f) /\ f \notin corrupt
    THEN [ok |-> TRUE, data |-> [i \in 1..Len(payload) |-> 10 + payload[i]]]
    ELSE [ok |-> FALSE, data |-> <<>>]

\* Content of the decompressed target of f after a clean download.
Target(f) == IF Compressed(f) THEN [i \in 1..RemoteLen |-> 10 + i] ELSE Remote(f)

ExtractUnlinksFirst(f, d) ==
    LET dec == Decompress(f, d.comp.data)
    IN  [ok |-> dec.ok,
         d |-> [d EXCEPT !.final = IF dec.ok THEN File(dec.data) ELSE @, !.comp = NoFile]]

ExtractKeepsCompressed(f, d) ==
    LET dec == Decompress(f, d.comp.data)
    IN  [ok |-> dec.ok, d |-> IF dec.ok THEN [d EXCEPT !.final = File(dec.data)] ELSE d]

\* extract_file on the directory entry d of f: [ok, d].  The gzip branch
\* opens finalpath for writing before the first read of the archive, so a
\* payload that does not decode leaves an empty finalpath behind; the LZW
\* branch decodes first and writes nothing on failure.  The compressed file
\* is unlinked only after a successful decode.
extract_file(f, d) ==
    LET dec == Decompress(f, d.comp.data)
    IN  IF dec.ok
        THEN [ok |-> TRUE, d |-> [d EXCEPT !.final = File(dec.data), !.comp = NoFile]]
        ELSE [ok |-> FALSE,
              d |-> IF Codec(f) = "gzip" THEN [d EXCEPT !.final = File(<<>>)] ELSE d]

\* headers = {"Range": f"bytes={partial.stat().st_size}-"} or "bytes=0-"
RangeHeaderFromZero(d) == 0

RangeHeader(d) == IF d.part.ex THEN Len(d.part.data) ELSE 0

\* partial.rename(filepath): filepath is the compressed path of a compressed
\* url and the final path otherwise (POSIX rename: replaces the target).
RenamePartial(f, d) ==
    IF Compressed(f)
    THEN [d EXCEPT !.comp = File(d.part.data), !.part = NoFile]
    ELSE [d EXCEPT !.final = File(d.part.data), !.part = NoFile]

\* decompressed.exists() of line 202
AlreadyDownloadedAtFilepath(f, d) == IF Compressed(f) THEN d.comp.ex ELSE d.final.ex

AlreadyDownloaded(f, d) == d.final.ex

LogNeverRaises == FALSE

\* _log_cb: emits the line and raises RuntimeError("Cancelled") once the
\* worker's stop flag is set.
LogRaises == stop

NoResp == [status |-> 0, body |-> <<>>, total |-> 0, downloaded |-> 0]

\* Bookkeeping of one download_file call: the file, the requests issued,
\* whether every attempt so far ended in a RequestException, whether a
\* transfer ran to completion, whether the target came from a compressed
\* artifact found on disk, the Range offset sent with the latest request and
\* the size of the .part file at that moment, the status of the latest
\* streamed response, whether target and artifact were absent on entry,
\* whether a 416 was received, whether the call was ended by
\* RuntimeError("Cancelled"), whether the latest request went through the
\* session that holds the archive credentials.
FreshCall(f) ==
    [file |-> f, reqs |-> 0, allErr |-> TRUE, xfer |-> FALSE, leftover |-> FALSE,
     range |-> 0, from |-> 0, via |-> 0, absent |-> FALSE, got416 |-> FALSE,
     cancelled |-> FALSE, auth |-> FALSE]

NoCall == FreshCall("none")

BatchList(b) == IF b = 1 THEN MetaList ELSE ProdList

Cur == BatchList(batch)[pos]

Terminal == {"skipped", "done", "failed"}

\* Directory residue of earlier sessions: nothing, a partial transfer of
\* any length, a compressed artifact that was never extracted, or the
\* finished target.
Residue(f) ==
    {[part |-> NoFile, comp |-> NoFile, final |-> NoFile]}
    \cup {[part |-> File(Prefix(Remote(f), n)), comp |-> NoFile, final |-> NoFile] :
            n \in 0..RemoteLen}
    \cup (IF Compressed(f)
          THEN {[part |-> NoFile, comp |-> File(Remote(f)), final |-> NoFile]}
          ELSE {})
    \cup {[part |-> NoFile, comp |-> NoFile, final |-> File(Target(f))]}

EmptyDisk == [f \in Files |-> [part |-> NoFile, comp |-> NoFile, final |-> NoFile]]

(***************************************************************************)
(* Worker run: PPPWorker.run (products given) and DownloadMetadataWorker.run*)
(***************************************************************************)
Emit(sig) == signals' = Append(signals, sig)

AllPresent(b) == \A i \in 1..Len(BatchList(b)) : disk[BatchList(b)[i]].final.ex

Snapshot(b) ==
    [present |-> AllPresent(b), disk |-> IF AllPresent(b) THEN disk ELSE EmptyDisk]

\* A worker object is created and its thread started.
StartRun(k) ==
    /\ pc = "idle"
    /\ kind' = k
    /\ pc' = "w_entry"
    /\ UNCHANGED <<disk, corrupt, stop, batch, pos, att, resp, outcome, cur,
                   signals, stopInBatch, snap, covVars, auxVars>>

\* stop(): sets the flag from the interactive thread at any moment of the run.
Stop ==
    /\ pc \notin {"idle", "ended"}
    /\ ~stop
    /\ stop' = TRUE
    /\ stopInBatch' = (batch # 0)
    /\ UNCHANGED <<disk, corrupt, kind, pc, batch, pos, att, resp, outcome, cur,
                   signals, snap, covVars, auxVars>>

\* run(): the check before the metadata download (workers.py 41 / 161),
\* then download_metadata -> download_products(dl_urls=METADATA).
RunEntry ==
    /\ pc = "w_entry"
    /\ IF stop
       THEN /\ Emit("finished_cancelled")
            /\ pc' = "ended"
            /\ UNCHANGED <<batch, snap>>
       ELSE /\ pc' = "dp_log"
            /\ batch' = 1
            /\ snap' = Snapshot(1)
            /\ UNCHANGED signals
    /\ UNCHANGED <<disk, corrupt, kind, stop, pos, att, resp, outcome, cur,
                   stopInBatch, covVars, auxVars>>

\* download_products line 343: the "files to check or download" line, then
\* the directories and the session are set up.  An exception here leaves
\* download_products and is caught by run()'s handler, which emits error.
DpLog ==
    /\ pc = "dp_log"
    /\ IF LogRaises
       THEN /\ Emit("error")
            /\ pc' = "ended"
            /\ batch' = 0
            /\ UNCHANGED pos
       ELSE /\ pos' = 1
            /\ pc' = "dp_next"
            /\ UNCHANGED <<signals, batch>>
    /\ UNCHANGED <<disk, corrupt, kind, stop, att, resp, outcome, cur,
                   stopInBatch, snap, covVars, auxVars>>

\* download_file raises with bookkeeping c: the exception reaches the
\* handler of download_products (line 356).
Raise(c, byCancel) ==
    /\ cur' = [c EXCEPT !.cancelled = byCancel]
    /\ outcome' = [outcome EXCEPT ![c.file] = "failed"]
    /\ pc' = "dp_except"
    /\ UNCHANGED pos

\* download_file returns a path with bookkeeping c.
Return(c, how) ==
    /\ cur' = c
    /\ outcome' = [outcome EXCEPT ![c.file] = how]
    /\ pos' = pos + 1
    /\ pc' = "dp_next"

\* download_file goes on to position p with bookkeeping c.
Goto(c, p) ==
    /\ cur' = c
    /\ pc' = p
    /\ UNCHANGED <<outcome, pos>>

\* for url in downloads: download_file lines 192-213 up to the first log line.
DfStart ==
    /\ pc = "dp_next"
    /\ pos <= Len(BatchList(batch))
    /\ LET f == Cur
           d == disk[f]
           c == [FreshCall(f) EXCEPT !.absent = ~d.final.ex /\ ~d.comp.ex]
       IN  IF AlreadyDownloaded(f, d)
           THEN IF LogRaises THEN Raise(c, TRUE) ELSE Return(c, "skipped")
           ELSE IF Compressed(f) /\ d.comp.ex
                THEN IF LogRaises THEN Raise(c, TRUE) ELSE Goto(c, "df_leftover")
                ELSE Goto(c, "df_attempt")
    /\ att' = 0
    /\ UNCHANGED <<disk, corrupt, kind, stop, batch, resp, signals,
                   stopInBatch, snap, covVars, auxVars>>

\* the loop over downloads is exhausted: download_products returns.
DpReturn ==
    /\ pc = "dp_next"
    /\ pos > Len(BatchList(batch))
    /\ pc' = IF batch = 1 THEN "w_after1" ELSE "w_after2"
    /\ batch' = 0
    /\ pos' = 0
    /\ cur' = NoCall
    /\ UNCHANGED <<disk, corrupt, kind, stop, att, resp, outcome,
                   signals, stopInBatch, snap, covVars, auxVars>>

DfLeftoverDownloads ==
    /\ pc = "df_leftover"
    /\ Goto(cur, "df_attempt")
    /\ UNCHANGED <<disk, corrupt, kind, stop, batch, att, resp, signals,
                   stopInBatch, snap, covVars, auxVars>>

\* download_file lines 207-212: extract the compressed artifact found on disk.
DfLeftover ==
    /\ pc = "df_leftover"
    /\ LET f == Cur
           x == extract_file(f, disk[f])
       IN  /\ disk' = [disk EXCEPT ![f] = x.d]
           /\ IF x.ok
              THEN Return([cur EXCEPT !.leftover = TRUE], "done")
              ELSE IF LogRaises THEN Raise(cur, TRUE) ELSE Goto(cur, "df_attempt")
    /\ UNCHANGED <<corrupt, kind, stop, batch, att, resp, signals,
                   stopInBatch, snap, covVars, auxVars>>

\* download_file lines 215-233: one pass of the retry loop up to the request.
DfAttempt ==
    /\ pc = "df_attempt"
    /\ att < MAX_RETRIES
    /\ LET f == Cur
           d == disk[f]
       IN  IF LogRaises
           THEN Raise(cur, TRUE) /\ UNCHANGED disk
           ELSE /\ disk' = [disk EXCEPT ![f].part = IF d.part.ex THEN d.part ELSE File(<<>>)]
                /\ Goto([cur EXCEPT !.reqs = @ + 1,
                                    !.range = RangeHeader(d),
                                    !.from = Len(d.part.data),
                                    !.auth = UnderBase(f)], "df_request")
    /\ UNCHANGED <<corrupt, kind, stop, batch, att, resp, signals,
                   stopInBatch, snap, covVars, auxVars>>

DfExhaustedReturns ==
    /\ pc = "df_attempt"
    /\ att = MAX_RETRIES
    /\ Return(cur, "done")
    /\ UNCHANGED <<disk, corrupt, kind, stop, batch, att, resp,
                   signals, stopInBatch, snap, covVars, auxVars>>

\* line 266: the loop ended without a return.
DfExhausted ==
    /\ pc = "df_attempt"
    /\ att = MAX_RETRIES
    /\ Raise(cur, FALSE)
    /\ UNCHANGED <<disk, corrupt, kind, stop, batch, att, resp,
                   signals, stopInBatch, snap, covVars, auxVars>>

\* except RequestException (line 263): log the failed attempt, next pass.
Retry(c) ==
    IF LogRaises
    THEN Raise(c, TRUE) /\ UNCHANGED att
    ELSE Goto(c, "df_attempt") /\ att' = att + 1

(***************************************************************************)
(* The server's answer to the request of the current attempt               *)
(***************************************************************************)
\* The connection fails or times out, or the status is an error status:
\* requests raises, or raise_for_status raises HTTPError; both are
\* RequestException.  A server that honours ranges answers 416 when the
\* range starts at or beyond the end of the file.
RespError ==
    /\ pc = "df_request"
    /\ \E status \in {"conn", "http", "416"} :
          /\ status = "416" => cur.range >= RemoteLen
          /\ Retry([cur EXCEPT !.got416 = @ \/ status = "416"])
    /\ UNCHANGED <<disk, corrupt, kind, stop, batch, resp, signals,
                   stopInBatch, snap, covVars, auxVars>>

\* 206 Partial Content from the requested offset: mode 'ab',
\* total_size = content-length + size of the partial.
Resp206 ==
    /\ pc = "df_request"
    /\ cur.range < RemoteLen
    /\ LET f == Cur
           body == Suffix(Remote(f), cur.range)
       IN  resp' = [status |-> 206, body |-> body,
                    total |-> Len(body) + Len(disk[f].part.data),
                    downloaded |-> Len(disk[f].part.data)]
    /\ Goto([cur EXCEPT !.via = 206], "df_stream")
    /\ UNCHANGED <<disk, corrupt, kind, stop, batch, att,
                   signals, stopInBatch, snap, covVars, auxVars>>

\* mode 'ab' under every success status
Resp200Appends ==
    /\ pc = "df_request"
    /\ resp' = [status |-> 200, body |-> Remote(Cur),
                total |-> Len(Remote(Cur)), downloaded |-> Len(disk[Cur].part.data)]
    /\ Goto([cur EXCEPT !.via = 200], "df_stream")
    /\ UNCHANGED <<disk, corrupt, kind, stop, batch, att,
                   signals, stopInBatch, snap, covVars, auxVars>>

\* 200 OK with the whole file: mode 'wb' truncates the partial.
Resp200 ==
    /\ pc = "df_request"
    /\ LET f == Cur
       IN  /\ resp' = [status |-> 200, body |-> Remote(f),
                       total |-> Len(Remote(f)), downloaded |-> 0]
           /\ disk' = [disk EXCEPT ![f].part = File(<<>>)]
    /\ Goto([cur EXCEPT !.via = 200], "df_stream")
    /\ UNCHANGED <<corrupt, kind, stop, batch, att,
                   signals, stopInBatch, snap, covVars, auxVars>>

\* A success status without Content-Length: int(None) raises TypeError,
\* which is no RequestException and leaves download_file.
RespNoLength ==
    /\ pc = "df_request"
    /\ Raise([cur EXCEPT !.allErr = FALSE], FALSE)
    /\ UNCHANGED <<disk, corrupt, kind, stop, batch, att, resp,
                   signals, stopInBatch, snap, covVars, auxVars>>

\* lines 245-248: one chunk is written to the partial.
StreamChunk ==
    /\ pc = "df_stream"
    /\ resp.body # <<>>
    /\ disk' = [disk EXCEPT ![Cur].part.data = Append(@, Head(resp.body))]
    /\ resp' = [resp EXCEPT !.body = Tail(@), !.downloaded = @ + 1]
    /\ UNCHANGED <<corrupt, kind, stop, pc, batch, pos, att, outcome, cur,
                   signals, stopInBatch, snap, covVars, auxVars>>

StreamFailTruncates ==
    /\ pc = "df_stream"
    /\ resp.body # <<>>
    /\ Retry(cur)
    /\ resp' = NoResp
    /\ disk' = [disk EXCEPT ![Cur].part = File(<<>>)]
    /\ UNCHANGED <<corrupt, kind, stop, batch, signals,
                   stopInBatch, snap, covVars, auxVars>>

\* the connection breaks before the body is complete (RequestException).
StreamFail ==
    /\ pc = "df_stream"
    /\ resp.body # <<>>
    /\ Retry(cur)
    /\ resp' = NoResp
    /\ UNCHANGED <<disk, corrupt, kind, stop, batch, signals,
                   stopInBatch, snap, covVars, auxVars>>

\* lines 254-262: the body is complete; rename the partial, log, and return
\* the file or go on to extract it.
StreamEnd ==
    /\ pc = "df_stream"
    /\ resp.body = <<>>
    /\ LET f == Cur
           c == [cur EXCEPT !.xfer = TRUE, !.allErr = FALSE]
       IN  /\ disk' = [disk EXCEPT ![f] = RenamePartial(f, @)]
           /\ IF LogRaises
              THEN Raise(c, TRUE)
              ELSE IF Compressed(f)
                   THEN Goto(c, "df_extract")
                   ELSE Return(c, "done")
    /\ resp' = NoResp
    /\ UNCHANGED <<corrupt, kind, stop, batch, att, signals,
                   stopInBatch, snap, covVars, auxVars>>

\* lines 258-260: log, then extract_file; a decode error is no
\* RequestException and leaves download_file.
DfExtract ==
    /\ pc = "df_extract"
    /\ LET f == Cur
           x == extract_file(f, disk[f])
       IN  IF LogRaises
           THEN Raise(cur, TRUE) /\ UNCHANGED disk
           ELSE /\ disk' = [disk EXCEPT ![f] = x.d]
                /\ IF x.ok THEN Return(cur, "done") ELSE Raise(cur, FALSE)
    /\ UNCHANGED <<corrupt, kind, stop, batch, att, resp, signals,
                   stopInBatch, snap, covVars, auxVars>>

DpExceptAbort ==
    /\ pc = "dp_except"
    /\ Emit("error")
    /\ pc' = "ended"
    /\ batch' = 0
    /\ UNCHANGED <<disk, corrupt, kind, stop, pos, att, resp, outcome, cur,
                   stopInBatch, snap, covVars, auxVars>>

\* download_products lines 356-357: log the failure and go on to the next
\* url; an exception raised by the log line itself leaves download_products
\* and reaches run()'s handler, which emits error.
DpExcept ==
    /\ pc = "dp_except"
    /\ IF LogRaises
       THEN /\ Emit("error")
            /\ pc' = "ended"
            /\ batch' = 0
            /\ UNCHANGED pos
       ELSE /\ pos' = pos + 1
            /\ pc' = "dp_next"
            /\ UNCHANGED <<signals, batch>>
    /\ UNCHANGED <<disk, corrupt, kind, stop, att, resp, outcome, cur,
                   stopInBatch, snap, covVars, auxVars>>

\* after download_metadata: DownloadMetadataWorker line 53 ends the run,
\* PPPWorker line 168 goes on to get_brdc_urls.
AfterMetadata ==
    /\ pc = "w_after1"
    /\ IF stop
       THEN Emit("finished_cancelled") /\ pc' = "ended"
       ELSE IF kind = "Meta"
            THEN Emit("finished_ok") /\ pc' = "ended"
            ELSE pc' = "w_chk174" /\ UNCHANGED signals
    /\ UNCHANGED <<disk, corrupt, kind, stop, batch, pos, att, resp, outcome,
                   cur, stopInBatch, snap, covVars, auxVars>>

\* PPPWorker line 174, then download_products(products, dl_urls=urls).
BeforeProducts ==
    /\ pc = "w_chk174"
    /\ IF stop
       THEN /\ Emit("finished_cancelled")
            /\ pc' = "ended"
            /\ UNCHANGED <<batch, snap>>
       ELSE /\ pc' = "dp_log"
            /\ batch' = 2
            /\ snap' = Snapshot(2)
            /\ UNCHANGED signals
    /\ UNCHANGED <<disk, corrupt, kind, stop, pos, att, resp, outcome, cur,
                   stopInBatch, covVars, auxVars>>

\* PPPWorker lines 185-189.
AfterProducts ==
    /\ pc = "w_after2"
    /\ Emit(IF stop THEN "finished_cancelled" ELSE "finished_ok")
    /\ pc' = "ended"
    /\ UNCHANGED <<disk, corrupt, kind, stop, batch, pos, att, resp, outcome,
                   cur, stopInBatch, snap, covVars, auxVars>>

(***************************************************************************)
(* Filename codec: text helpers                                            *)
(*                                                                         *)
(* A filename is the sequence of its characters.  The names used below are *)
(* made of letters, digits, '.' and '_'.                                   *)
(***************************************************************************)
Lowers == <<"a", "b", "c", "d", "e", "f", "g", "h", "i", "j", "k", "l", "m",
            "n", "o", "p", "q", "r", "s", "t", "u", "v", "w", "x", "y", "z">>
Uppers == <<"A", "B", "C", "D", "E", "F", "G", "H", "I", "J", "K", "L", "M",
            "N", "O", "P", "Q", "R", "S", "T", "U", "V", "W", "X", "Y", "Z">>
Digits == <<"0", "1", "2", "3", "4", "5", "6", "7", "8", "9">>

IsDigit(c) == \E i \in 1..10 : Digits[i] = c
DigitVal(c) == (CHOOSE i \in 1..10 : Digits[i] = c) - 1

\* str.upper() and str.lower(): the letters they change
UpperOf == [c \in {Lowers[k] : k \in 1..26} |-> Uppers[CHOOSE k \in 1..26 : Lowers[k] = c]]
LowerOf == [c \in {Uppers[k] : k \in 1..26} |-> Lowers[CHOOSE k \in 1..26 : Uppers[k] = c]]

upper(t) ==
    [i \in 1..Len(t) |-> IF t[i] \in DOMAIN UpperOf THEN UpperOf[t[i]] ELSE t[i]]

lower(t) ==
    [i \in 1..Len(t) |-> IF t[i] \in DOMAIN LowerOf THEN LowerOf[t[i]] ELSE t[i]]

\* filename[a:b]: a slice never raises, it is cut at the end of the name
Slice(t, a, b) == SubSeq(t, a + 1, IF b < Len(t) THEN b ELSE Len(t))

\* int(text) succeeds on a non-empty run of digits, in which single
\* underscores may separate digits; anything else raises ValueError.
IntOk(t) ==
    /\ t # <<>>
    /\ \A i \in 1..Len(t) :
          \/ IsDigit(t[i])
          \/ /\ t[i] = "_"
             /\ 1 < i /\ i < Len(t)
             /\ IsDigit(t[i - 1]) /\ IsDigit(t[i + 1])

RECURSIVE IntVal(_)
IntVal(t) ==
    IF t = <<>> THEN 0
    ELSE LET front == SubSeq(t, 1, Len(t) - 1)
             last == t[Len(t)]
         IN  IF last = "_" THEN IntVal(front) ELSE 10 * IntVal(front) + DigitVal(last)

\* f"{n:0wd}": n in decimal, zero-padded to at least w characters (w >= 1)
RECURSIVE Pad(_, _)
Pad(n, w) ==
    IF n = 0 /\ w = 0 THEN <<>>
    ELSE Pad(n \div 10, IF w > 0 THEN w - 1 ELSE 0) \o <<Digits[(n % 10) + 1]>>

(***************************************************************************)
(* Filename codec: instants and GPS weeks                                  *)
(*                                                                         *)
(* An instant (datetime) is its number of minutes after GPS_ORIGIN, a      *)
(* period (timedelta) its number of days.                                  *)
(***************************************************************************)
Day == 24 * 60

\* datetime(year, 1, 1) as days after GPS_ORIGIN, for the years of the model
Jan1(y) == CASE y = 2022 -> 15336 [] y = 2023 -> 15701

\* GPSDate(...).gpswk: weeks completed since the origin
gpswk(t) == (t \div Day) \div 7

date_to_gpswk(t) == gpswk(t)

\* GPS_ORIGIN + gps_week W + gps_day D
gpswk_to_date(gps_week, gps_day) == (7 * gps_week + gps_day) * Day

\* date.strftime('%Y%j%H%M')
strftime(t) ==
    LET d == t \div Day
        y == IF d < Jan1(2023) THEN 2022 ELSE 2023
    IN  Pad(y, 4) \o Pad(d - Jan1(y) + 1, 3) \o Pad((t % Day) \div 60, 2) \o Pad(t % 60, 2)

\* The format convention changed in week 2237.
EraWeek == 2237

\* Python's None, as an f-string prints it
None == <<"N", "o", "n", "e">>

NoRec ==
    [analysis_center |-> <<>>, project |-> <<>>, date |-> 0, solution_type |-> <<>>,
     period |-> 0, resolution |-> <<>>, content |-> <<>>, format |-> <<>>]

Skip(err) == [ok |-> FALSE, err |-> err, rec |-> NoRec]
Rec(r) == [ok |-> TRUE, err |-> "", rec |-> r]

(***************************************************************************)
(* Filename codec: get_product_dataframe (decode), download_products       *)
(* (encode)                                                                *)
(***************************************************************************)
\* The texts of the names: provider, project, solution type, format and
\* content codes, period and resolution fields, the .gz extension, a
\* checksum sidecar, the antenna model and the fixed parts of a broadcast
\* navigation file name.
Txt ==
    [COD |-> <<"C", "O", "D">>,
     GRG |-> <<"G", "R", "G">>,
     OPS |-> <<"O", "P", "S">>,
     FIN |-> <<"F", "I", "N">>,
     SP3 |-> <<"S", "P", "3">>,
     CLK |-> <<"C", "L", "K">>,
     BIA |-> <<"B", "I", "A">>,
     SNX |-> <<"S", "N", "X">>,
     ORB |-> <<"O", "R", "B">>,
     GZ |-> <<".", "g", "z">>,
     P01D |-> <<"0", "1", "D">>,
     P07D |-> <<"0", "7", "D">>,
     P01H |-> <<"0", "1", "H">>,
     R05M |-> <<"0", "5", "M">>,
     R15M |-> <<"1", "5", "M">>,
     R30S |-> <<"3", "0", "S">>,
     MD5SUMS |-> <<"M", "D", "5", "S", "U", "M", "S">>,
     ATX |-> <<"i", "g", "s", "2", "0", ".", "a", "t", "x">>,
     BRDC |-> <<"B", "R", "D", "C", "0", "0", "I", "G", "S", "_", "R", "_">>,
     MN |-> <<"_", "M", "N", ".", "r", "n", "x">>]

\* week < 2237, AAAWWWWD.TYP.Z: filename[7] raises IndexError on a name of
\* fewer than 8 characters, int() raises ValueError on a non-digit; day
\* 1..6 is a daily file, any other digit a weekly one dated at the week start.
decode_pre(gps_week, filename) ==
    IF Len(filename) <= 7 THEN Skip("IndexError")
    ELSE IF ~IntOk(<<filename[8]>>) THEN Skip("ValueError")
    ELSE LET day == IntVal(<<filename[8]>>)
             daily == 0 < day /\ day < 7
         IN  Rec([analysis_center |-> upper(Slice(filename, 0, 3)),
                  project |-> Txt.OPS,
                  date |-> gpswk_to_date(gps_week, 0) + (IF daily THEN day * Day ELSE 0),
                  solution_type |-> Txt.FIN,
                  period |-> IF daily THEN 1 ELSE 7,
                  resolution |-> None,
                  content |-> None,
                  format |-> upper(Slice(filename, 9, 12))])

\* week >= 2237, AAA0OPSSNX_YYYYDDDHHMM_LEN_SMP_CNT.FMT.gz: fields by
\* character offset; int() raises ValueError on a field that is no number,
\* datetime() on an hour or minute out of range (the years of the model are
\* those of Jan1).
decode_post(filename) ==
    LET year == Slice(filename, 11, 15)
        day_of_year == Slice(filename, 15, 18)
        hour == Slice(filename, 18, 20)
        minute == Slice(filename, 20, 22)
        intended_period == Slice(filename, 23, 26)
        days == SubSeq(intended_period, 1, Len(intended_period) - 1)
    IN  IF ~(IntOk(year) /\ IntOk(day_of_year) /\ IntOk(hour) /\ IntOk(minute))
        THEN Skip("ValueError")
        ELSE IF IntVal(year) < 1 \/ IntVal(hour) > 23 \/ IntVal(minute) > 59
        THEN Skip("ValueError")
        ELSE IF ~IntOk(days) THEN Skip("ValueError")
        ELSE Rec([analysis_center |-> Slice(filename, 0, 3),
                  project |-> Slice(filename, 4, 7),
                  date |-> (Jan1(IntVal(year)) + IntVal(day_of_year) - 1) * Day
                             + IntVal(hour) * 60 + IntVal(minute),
                  solution_type |-> Slice(filename, 7, 10),
                  period |-> IntVal(days),
                  resolution |-> Slice(filename, 27, 30),
                  content |-> Slice(filename, 31, 34),
                  format |-> Slice(filename, 35, 38)])

\* the try block of lines 92-126 on one listing entry
decode(gps_week, filename) ==
    IF gps_week < EraWeek THEN decode_pre(gps_week, filename) ELSE decode_post(filename)

\* download_products lines 323-335: the filename built for a row
filename_of(row) ==
    LET gps_week == date_to_gpswk(row.date)
    IN  IF gps_week < EraWeek
        THEN LET day == IF row.period = 7 THEN 7
                        ELSE (row.date - gpswk_to_date(gps_week, 0)) \div Day
             IN  lower(row.analysis_center) \o Pad(gps_week, 1) \o Pad(day, 1)
                    \o <<".">> \o lower(row.format) \o <<".", "Z">>
        ELSE row.analysis_center \o <<"0">> \o row.project \o row.solution_type
                \o <<"_">> \o strftime(row.date)
                \o <<"_">> \o Pad(row.period, 2) \o <<"D", "_">> \o row.resolution
                \o <<"_">> \o row.content \o <<".">> \o row.format \o <<".", "g", "z">>

\* line 337: {BASE_URL}/gnss/products/{gps_week}/{filename}
url_of(row) == [week |-> date_to_gpswk(row.date), name |-> filename_of(row)]

(***************************************************************************)
(* Catalog build: PPPWorker.run without products -> get_product_dataframe  *)
(***************************************************************************)
\* target_files of lines 69-72
target_files(w) == IF w.given THEN {upper(f) : f \in w.formats} ELSE {Txt.CLK, Txt.BIA, Txt.SP3}

gps_weeks_exclusive(w) ==
    [i \in 1..(date_to_gpswk(w.end) - date_to_gpswk(w.start)) |->
        date_to_gpswk(w.start) + i - 1]

\* range(date_to_gpswk(start_time), date_to_gpswk(end_time) + 1)
gps_weeks(w) ==
    [i \in 1..(date_to_gpswk(w.end) + 1 - date_to_gpswk(w.start)) |->
        date_to_gpswk(w.start) + i - 1]

KeepIgnoresDate(rec, w) == rec.format \in target_files(w)

\* the test of line 128
Keep(rec, w) ==
    rec.format \in target_files(w) /\ w.start <= rec.date /\ rec.date <= w.end

CaughtValueErrorOnly(err) == err = "ValueError"

\* except (ValueError, IndexError): continue
Caught(err) == err \in {"ValueError", "IndexError"}

\* The loop over the entries of one listing page (lines 90-141): rows are
\* appended to products in page order; an exception that the except clause
\* does not catch leaves get_product_dataframe.
RECURSIVE Collect(_, _, _, _)
Collect(products, gps_week, entries, w) ==
    IF entries = <<>> THEN [raised |-> FALSE, rows |-> products]
    ELSE LET d == decode(gps_week, Head(entries))
         IN  IF d.ok
             THEN Collect(IF Keep(d.rec, w) THEN Append(products, d.rec) ELSE products,
                          gps_week, Tail(entries), w)
             ELSE IF Caught(d.err)
                  THEN Collect(products, gps_week, Tail(entries), w)
                  ELSE [raised |-> TRUE, rows |-> products]

\* products.drop_duplicates(): a row equal in every column to an earlier
\* row is dropped, the order of the others is kept.
RECURSIVE drop_duplicates(_)
drop_duplicates(rows) ==
    IF rows = <<>> THEN <<>>
    ELSE LET front == drop_duplicates(SubSeq(rows, 1, Len(rows) - 1))
             last == rows[Len(rows)]
         IN  IF \E i \in 1..Len(front) : front[i] = last THEN front
             ELSE Append(front, last)

CatIdle ==
    [weeks |-> <<>>, k |-> 0, fetched |-> <<>>, failed |-> 0, products |-> <<>>,
     returned |-> FALSE, rows |-> <<>>, raised |-> FALSE]

\* variables of the download engine that a catalog run does not touch
dlRest == <<disk, corrupt, kind, stop, batch, pos, att, resp, outcome, cur,
            stopInBatch, snap>>

\* run() with self.products.empty (workers.py 144-150): the stop check, then
\* get_product_dataframe up to the loop over the weeks (lines 69-77).
CatEntry ==
    /\ pc = "w_entry"
    /\ kind = "Cat"
    /\ IF stop
       THEN /\ Emit("finished_cancelled")
            /\ pc' = "ended"
            /\ UNCHANGED cat
       ELSE /\ cat' = [CatIdle EXCEPT !.weeks = gps_weeks(win), !.k = 1]
            /\ pc' = "c_week"
            /\ UNCHANGED signals
    /\ UNCHANGED <<win, listing, codecVars, archVars, covVars, callVars, dlRest>>

\* one pass of the loop over gps_weeks whose listing is fetched: every
\* entry of the page is decoded and filtered (lines 78-141).
FetchWeekOk ==
    /\ pc = "c_week"
    /\ cat.k <= Len(cat.weeks)
    /\ LET gps_week == cat.weeks[cat.k]
           c == Collect(cat.products, gps_week, listing[gps_week], win)
       IN  IF c.raised
           THEN /\ cat' = [cat EXCEPT !.fetched = Append(@, gps_week), !.raised = TRUE]
                /\ Emit("error")
                /\ pc' = "ended"
           ELSE /\ cat' = [cat EXCEPT !.fetched = Append(@, gps_week),
                                      !.products = c.rows, !.k = @ + 1]
                /\ UNCHANGED <<pc, signals>>
    /\ UNCHANGED <<win, listing, codecVars, archVars, covVars, callVars, dlRest>>

FetchWeekFailSkipsWeek ==
    /\ pc = "c_week"
    /\ cat.k <= Len(cat.weeks)
    /\ cat' = [cat EXCEPT !.fetched = Append(@, cat.weeks[cat.k]),
                          !.failed = cat.weeks[cat.k], !.k = @ + 1]
    /\ UNCHANGED <<pc, signals, win, listing, codecVars, archVars, covVars, callVars, dlRest>>

\* the listing request times out or raise_for_status() raises (lines
\* 81-85): RequestException leaves get_product_dataframe and run()'s
\* handler emits error (workers.py 152-155).
FetchWeekFail ==
    /\ pc = "c_week"
    /\ cat.k <= Len(cat.weeks)
    /\ cat' = [cat EXCEPT !.fetched = Append(@, cat.weeks[cat.k]),
                          !.failed = cat.weeks[cat.k], !.raised = TRUE]
    /\ Emit("error")
    /\ pc' = "ended"
    /\ UNCHANGED <<win, listing, codecVars, archVars, covVars, callVars, dlRest>>

\* lines 142-143 and workers.py 151: the de-duplicated rows are returned
\* and handed to the finished signal.
CatReturn ==
    /\ pc = "c_week"
    /\ cat.k > Len(cat.weeks)
    /\ cat' = [cat EXCEPT !.returned = TRUE, !.rows = drop_duplicates(cat.products)]
    /\ Emit("finished_df")
    /\ pc' = "ended"
    /\ UNCHANGED <<win, listing, codecVars, archVars, covVars, callVars, dlRest>>

(***************************************************************************)
(* Round trips of the codec                                                *)
(***************************************************************************)
NoEntry == [week |-> 0, name |-> <<>>]
TripIdle == [state |-> "idle", ok |-> FALSE, rec |-> NoRec, name |-> <<>>]

\* A listing entry is decoded (get_product_dataframe lines 92-126) and the
\* filename of the resulting row is rebuilt (download_products 322-338).
RoundTripName ==
    /\ trip.state = "idle"
    /\ entry # NoEntry
    /\ LET d == decode(entry.week, entry.name)
       IN  trip' = [state |-> "name", ok |-> d.ok, rec |-> d.rec,
                    name |-> IF d.ok THEN filename_of(d.rec) ELSE <<>>]
    /\ UNCHANGED <<entry, record, catVars, archVars, covVars, callVars, dlVars>>

\* The filename of a row is built and decoded as an entry of the listing of
\* the week its url names.
RoundTripRecord ==
    /\ trip.state = "idle"
    /\ record # NoRec
    /\ LET u == url_of(record)
           d == decode(u.week, u.name)
       IN  trip' = [state |-> "record", ok |-> d.ok, rec |-> d.rec, name |-> u.name]
    /\ UNCHANGED <<entry, record, catVars, archVars, covVars, callVars, dlVars>>

(***************************************************************************)
(* Listings, windows, names and rows the specifications start from         *)
(***************************************************************************)
MaxEntries == 2   \* entries of all listing pages together

\* YYYYDDDHHMM
Stamp(y, doy, hh, mm) == Pad(y, 4) \o Pad(doy, 3) \o Pad(hh, 2) \o Pad(mm, 2)

\* e.g. cod22360.sp3.Z in the listing of week 2236
Short(center, day, fmt) ==
    lower(center) \o Pad(EraWeek - 1, 1) \o <<day, ".">> \o lower(fmt) \o <<".", "Z">>

\* e.g. COD0OPSFIN_20223240000_01D_05M_ORB.SP3.gz
Long(center, stamp, len, smp, cnt, fmt, ext) ==
    center \o <<"0">> \o Txt.OPS \o Txt.FIN \o <<"_">> \o stamp \o <<"_">> \o len
        \o <<"_">> \o smp \o <<"_">> \o cnt \o <<".">> \o fmt \o ext

\* Entries of the listing page of a week.  Week 2236 (pre-2237): daily and
\* weekly products of wanted and unwanted formats, a sidecar (too short) and
\* a name whose day is no digit.  Week 2237: two orbit files that differ in
\* resolution only, a clock file of the next day, an unwanted format, a
\* sidecar, a name whose date field is no number, a name whose hour is 99.
\* Week 2238: an orbit file also listed in week 2237 and a clock file of
\* the first day of the week.
Names(w) ==
    IF w < EraWeek THEN
          {Short(Txt.COD, "0", Txt.SP3), Short(Txt.COD, "3", Txt.SP3), Short(Txt.GRG, "7", Txt.CLK),
           Short(Txt.COD, "7", Txt.SNX), Txt.MD5SUMS, Short(Txt.COD, "x", Txt.SP3)}
    ELSE IF w = EraWeek THEN
          {Long(Txt.COD, Stamp(2022, 324, 0, 0), Txt.P01D, Txt.R05M, Txt.ORB, Txt.SP3, Txt.GZ),
           Long(Txt.COD, Stamp(2022, 324, 0, 0), Txt.P01D, Txt.R15M, Txt.ORB, Txt.SP3, Txt.GZ),
           Long(Txt.GRG, Stamp(2022, 325, 0, 0), Txt.P01D, Txt.R30S, Txt.CLK, Txt.CLK, Txt.GZ),
           Long(Txt.COD, Stamp(2022, 324, 0, 0), Txt.P01D, Txt.P01D, Txt.ORB, Txt.SNX, Txt.GZ),
           Txt.MD5SUMS,
           Long(Txt.COD, <<"2", "0", "2", "2", "A", "B", "1", "0", "0", "0", "0">>,
                Txt.P01D, Txt.R05M, Txt.ORB, Txt.SP3, Txt.GZ),
           Long(Txt.COD, Stamp(2022, 324, 99, 0), Txt.P01D, Txt.R05M, Txt.ORB, Txt.SP3, Txt.GZ)}
    ELSE
          {Long(Txt.COD, Stamp(2022, 324, 0, 0), Txt.P01D, Txt.R05M, Txt.ORB, Txt.SP3, Txt.GZ),
           Long(Txt.GRG, Stamp(2022, 331, 0, 0), Txt.P01D, Txt.R30S, Txt.CLK, Txt.CLK, Txt.GZ)}

CatWeeks == (EraWeek - 1)..(EraWeek + 1)

WeekNames == UNION {{<<w, e>> : e \in Names(w)} : w \in CatWeeks}

NoListing == [w \in CatWeeks |-> <<>>]

RECURSIVE Listings(_)
Listings(n) ==
    IF n = 0 THEN {NoListing}
    ELSE LET smaller == Listings(n - 1)
         IN  smaller \cup {[l EXCEPT ![x[1]] = Append(@, x[2])] :
                              l \in smaller, x \in WeekNames}

\* Wednesday of week 2236, the start of week 2237, noon of its Monday and
\* the start of week 2238
Instants ==
    {gpswk_to_date(EraWeek - 1, 3), gpswk_to_date(EraWeek, 0),
     gpswk_to_date(EraWeek, 1) + 12 * 60, gpswk_to_date(EraWeek + 1, 0)}

\* start <= end with the default formats, and the widest window with ["sp3"]
Windows ==
    {w \in [start : Instants, end : Instants, given : {FALSE}, formats : {{}}] :
        w.start <= w.end}
    \cup {[start |-> gpswk_to_date(EraWeek - 1, 3), end |-> gpswk_to_date(EraWeek + 1, 0),
           given |-> TRUE, formats |-> {lower(Txt.SP3)}]}

\* Post-2237 names of the grammar AAA0PPPTTT_YYYYDDDHHMM_LEN_SMP_CNT.FMT[.gz]
\* as found in the listing of week 2237.
ValidPostNames ==
    {Long(c, Stamp(2022, d, h, 0), len, smp, Txt.ORB, f, ext) :
        c \in {Txt.COD, Txt.GRG}, d \in {324, 325}, h \in {0, 12},
        len \in {Txt.P01D, Txt.P07D, Txt.P01H}, smp \in {Txt.R05M, Txt.R15M}, f \in {Txt.SP3, Txt.CLK},
        ext \in {Txt.GZ, <<>>}}

Entries == {[week |-> EraWeek, name |-> n] : n \in ValidPostNames}

\* Pre-2237 names of the listing of week 2236, aaaWWWWD.fmt.Z, with each of
\* the day digits 0..7.
PreEntries ==
    {[week |-> EraWeek - 1, name |-> Short(c, d, f)] :
        c \in {Txt.COD, Txt.GRG}, d \in {"0", "1", "2", "3", "4", "5", "6", "7"},
        f \in {Txt.SP3, Txt.CLK}}

\* Rows of the pre-2237 era: daily rows of each day of week 2236 and the
\* weekly row dated at the start of the week.
PreRows ==
    {[analysis_center |-> c, project |-> Txt.OPS, date |-> gpswk_to_date(EraWeek - 1, d),
      solution_type |-> Txt.FIN, period |-> 1, resolution |-> None, content |-> None,
      format |-> f] : c \in {Txt.COD, Txt.GRG}, d \in 0..6, f \in {Txt.SP3, Txt.CLK}}
    \cup
    {[analysis_center |-> c, project |-> Txt.OPS, date |-> gpswk_to_date(EraWeek - 1, 0),
      solution_type |-> Txt.FIN, period |-> 7, resolution |-> None, content |-> None,
      format |-> f] : c \in {Txt.COD, Txt.GRG}, f \in {Txt.SP3, Txt.CLK}}

\* Rows of the post-2237 era.
PostRows ==
    {[analysis_center |-> c, project |-> Txt.OPS, date |-> gpswk_to_date(EraWeek, d) + h * 60,
      solution_type |-> Txt.FIN, period |-> p, resolution |-> smp, content |-> Txt.ORB,
      format |-> f] :
        c \in {Txt.COD, Txt.GRG}, d \in {0, 1}, h \in {0, 12}, p \in {1, 7},
        smp \in {Txt.R05M, Txt.R15M}, f \in {Txt.SP3, Txt.CLK}}

(***************************************************************************)
(* Archival: app/utils/products_manager.py                                 *)
(***************************************************************************)
MaxFiles == 3     \* top-level files of the products directory

EOPName ==
    <<"f", "i", "n", "a", "l", "s", ".", "d", "a", "t", "a", ".",
      "i", "a", "u", "2", "0", "0", "0", ".", "t", "x", "t">>

\* product_patterns of lines 29-37
product_patterns ==
    <<EOPName,
      <<"B", "R", "D", "C", "*", ".", "r", "n", "x", "*">>,
      <<"*", ".">> \o Txt.SP3,
      <<"*", ".">> \o Txt.CLK,
      <<"*", ".">> \o Txt.BIA,
      <<"*", ".", "I", "O", "N">>,
      <<"*", ".", "T", "R", "O">>>>

\* exclude_patterns of line 95
SelectionExcludes == {product_patterns[1], product_patterns[2]}

\* Path.glob matching of one name against one pattern ('*' is the only
\* wildcard of the patterns); cs: the platform compares case-sensitively
\* (POSIX) or after folding the case of pattern and name (Windows).
RECURSIVE MatchFrom(_, _, _, _)
MatchFrom(pat, name, i, j) ==
    IF i > Len(pat) THEN j > Len(name)
    ELSE IF pat[i] = "*"
         THEN \/ MatchFrom(pat, name, i + 1, j)
              \/ j <= Len(name) /\ MatchFrom(pat, name, i, j + 1)
         ELSE /\ j <= Len(name)
              /\ pat[i] = name[j]
              /\ MatchFrom(pat, name, i + 1, j + 1)

Match(pat, name, cs) ==
    IF cs THEN MatchFrom(pat, name, 1, 1)
    ELSE \E p \in {lower(pat)} : \E n \in {lower(name)} : MatchFrom(p, n, 1, 1)

\* The files the glob loop of lines 39-45 finds at the top level of d.
globbed(d, exclude, cs) ==
    {n \in d.top :
        \E i \in 1..Len(product_patterns) :
            /\ product_patterns[i] \notin exclude
            /\ Match(product_patterns[i], n, cs)}

NoArchive(d) == [dir |-> d, path |-> 0, moved |-> {}, failed |-> {}]

\* archive_products (lines 10-58) on directory d: the outcomes it can have.
\* Every shutil.move may raise (logged, the file stays), so any subset of
\* the files found is moved.  The archive folder is created before the
\* files are looked for; its path is returned when something was moved.
archive_products(d, reason, exclude, cs) ==
    IF ~d.exists THEN {NoArchive(d)}
    ELSE UNION {
           {LET after == [d EXCEPT !.top = @ \ moved,
                                   !.archived = Append(@, [reason |-> reason,
                                                           files |-> moved])]
            IN  [dir |-> after,
                 path |-> IF moved # {} THEN Len(after.archived) ELSE 0,
                 moved |-> moved, failed |-> matched \ moved] :
              moved \in SUBSET matched} :
           matched \in {globbed(d, exclude, cs)}}

\* lines 75-96
archive_products_if_selection_changed(current_selection, last_selection, d, cs) ==
    IF last_selection.set /\ current_selection = last_selection.val
    THEN {NoArchive(d)}
    ELSE archive_products(d, "ppp_selection_change", SelectionExcludes, cs)

\* lines 61-72
archive_products_if_rinex_changed(current_rinex, last_rinex, d, cs) ==
    IF last_rinex.set /\ current_rinex = last_rinex.val
    THEN {NoArchive(d)}
    ELSE archive_products(d, "rinex_change", {}, cs)

NoDir == [exists |-> FALSE, top |-> {}, tables |-> {}, archived |-> <<>>]
Unset == [set |-> FALSE, val |-> [none |-> TRUE]]
ArchIdle == [state |-> "idle", before |-> NoDir, path |-> 0, moved |-> {}, failed |-> {}]

\* _on_process_clicked (main_window.py 136-139) calls the selection check.
ArchiveOnSelection ==
    /\ ares.state = "idle"
    /\ sel.kind = "selection"
    /\ \E r \in archive_products_if_selection_changed(sel.current, sel.last, pdir, posix) :
          /\ pdir' = r.dir
          /\ ares' = [state |-> "selection", before |-> pdir, path |-> r.path,
                      moved |-> r.moved, failed |-> r.failed]
    /\ UNCHANGED <<posix, sel, catVars, codecVars, covVars, callVars, dlVars>>

\* load_rnx_file (input_controller.py 137-142) calls the RINEX check.
ArchiveOnRinex ==
    /\ ares.state = "idle"
    /\ sel.kind = "rinex"
    /\ \E r \in archive_products_if_rinex_changed(sel.current, sel.last, pdir, posix) :
          /\ pdir' = r.dir
          /\ ares' = [state |-> "rinex", before |-> pdir, path |-> r.path,
                      moved |-> r.moved, failed |-> r.failed]
    /\ UNCHANGED <<posix, sel, catVars, codecVars, covVars, callVars, dlVars>>

\* Files found in a products directory: decompressed products of both eras
\* (download_products writes pre-2237 names in lower case), ionosphere and
\* troposphere products, a broadcast navigation file, the EOP file, the
\* antenna model and the partial downloads (download_file, dl_products.py
\* 217: the name of the compressed file followed by .part) of a product and
\* of the broadcast navigation file.
BRDCName ==
    <<"B", "R", "D", "C", "0", "0", "I", "G", "S", "_", "R", "_">>
        \o Stamp(2022, 324, 0, 0) \o <<"_">> \o Txt.P01D \o <<"_", "M", "N", ".", "r", "n", "x">>

TopNames ==
    {Long(Txt.COD, Stamp(2022, 324, 0, 0), Txt.P01D, Txt.R05M, Txt.ORB, Txt.SP3, <<>>),
     Long(Txt.COD, Stamp(2022, 324, 0, 0), Txt.P01D, Txt.R30S, Txt.CLK, Txt.CLK, <<>>),
     Long(Txt.COD, Stamp(2022, 324, 0, 0), Txt.P01D, Txt.P01D, <<"O", "S", "B">>, Txt.BIA, <<>>),
     <<"c", "o", "d", "g", ".", "I", "O", "N">>,
     <<"c", "o", "d", ".", "T", "R", "O">>,
     lower(Txt.COD) \o Pad(EraWeek - 1, 1) \o <<"0", ".">> \o lower(Txt.SP3),
     BRDCName,
     EOPName,
     <<"i", "g", "s", "2", "0", ".", "a", "t", "x">>,
     Long(Txt.COD, Stamp(2022, 324, 0, 0), Txt.P01D, Txt.R05M, Txt.ORB, Txt.SP3, Txt.GZ) \o <<".", "p", "a", "r", "t">>,
     BRDCName \o Txt.GZ \o <<".", "p", "a", "r", "t">>}

RECURSIVE SubsetsUpTo(_, _)
SubsetsUpTo(S, n) ==
    IF n = 0 THEN {{}}
    ELSE LET smaller == SubsetsUpTo(S, n - 1)
         IN  smaller \cup {t \cup {x} : t \in smaller, x \in S}

\* A products directory: up to MaxFiles top-level files, a tables/ folder
\* and earlier archive folders that may hold product files of their own; or
\* no directory at all.
Dirs ==
    {NoDir} \cup
    [exists : {TRUE},
     top : SubsetsUpTo(TopNames, MaxFiles),
     tables : {{}, {<<"g", "p", "t", ".", "T", "R", "O">>}},
     archived : {<<>>, <<[reason |-> "rinex_change",
                          files |-> {<<"o", "l", "d", ".">> \o Txt.SP3}]>>}]

\* The current key and the one recorded by the previous call, if any: two
\* selections {provider, project, series}, two RINEX paths.
Keys ==
    UNION {{[kind |-> k.kind, current |-> c, last |-> l] :
               c \in k.vals,
               l \in {Unset} \cup {[set |-> TRUE, val |-> v] : v \in k.vals}} :
           k \in {[kind |-> "selection",
                   vals |-> {[ppp_provider |-> "COD", ppp_project |-> "OPS", ppp_series |-> "FIN"],
                            [ppp_provider |-> "GRG", ppp_project |-> "OPS", ppp_series |-> "FIN"]}],
                  [kind |-> "rinex",
                   vals |-> {[path |-> "a.rnx"], [path |-> "b.rnx"]}]}}

(***************************************************************************)
(* Process request: MainWindow._on_process_clicked and the handlers of the *)
(* worker's terminal signals (app/main_window.py)                          *)
(***************************************************************************)
MaxCalls == 2     \* Process clicks, download_metadata calls

ProcessStepsStartFirst == <<"start", "archive", "record">>

\* The statements of an accepted request, in program order: the archival
\* check (lines 136-139), the assignment of last_ppp_selection (line 140)
\* and download_thread.start() (lines 148-175).
ProcessSteps == <<"archive", "record", "start">>

\* MainWindow before construction; __init__ sets is_processing = False
\* (line 66) and starts the metadata download thread (line 81).
UiIdle ==
    [step |-> 0, processing |-> FALSE, clicks |-> 0, rejected |-> FALSE,
     bg |-> FALSE, pea |-> FALSE, runs |-> 0, ended |-> "none"]

ProcessClickedNoLock ==
    /\ sel.kind = "process"
    /\ ui.step = 0
    /\ ui.clicks < MaxCalls
    /\ \E current \in {[ppp_provider |-> p, ppp_project |-> "OPS", ppp_series |-> "FIN"] :
                          p \in {"COD", "GRG"}} :
          /\ ui' = [ui EXCEPT !.clicks = @ + 1, !.rejected = FALSE,
                              !.processing = TRUE, !.step = 1]
          /\ sel' = [sel EXCEPT !.current = current]
          /\ ares' = ArchIdle
          /\ pc' = "idle"
    /\ UNCHANGED <<pdir, posix, meta, prog, exe, catVars, codecVars, covVars, dlRest, signals>>

\* lines 113-124: a click is turned down when no RINEX file or output
\* directory is chosen or a request is in progress; otherwise the
\* processing state is set and the selection is read from the combo boxes.
ProcessClicked ==
    /\ sel.kind = "process"
    /\ ui.step = 0
    /\ ui.clicks < MaxCalls
    /\ \E ready \in BOOLEAN :
       \E current \in {[ppp_provider |-> p, ppp_project |-> "OPS", ppp_series |-> "FIN"] :
                          p \in {"COD", "GRG"}} :
          IF ~ready \/ ui.processing
          THEN /\ ui' = [ui EXCEPT !.clicks = @ + 1, !.rejected = TRUE]
               /\ UNCHANGED <<sel, ares, pc>>
          ELSE /\ ui' = [ui EXCEPT !.clicks = @ + 1, !.rejected = FALSE,
                                   !.processing = TRUE, !.step = 1]
               /\ sel' = [sel EXCEPT !.current = current]
               /\ ares' = ArchIdle
               /\ pc' = "idle"
    /\ UNCHANGED <<pdir, posix, meta, prog, exe, catVars, codecVars, covVars, dlRest, signals>>

\* The next statement of the request in progress.
ProcessStep ==
    /\ ui.step > 0
    /\ LET next == IF ui.step = Len(ProcessSteps) THEN 0 ELSE ui.step + 1
       IN  /\ ui' = [ui EXCEPT !.step = next,
                                !.runs = IF ProcessSteps[ui.step] = "start" THEN @ + 1 ELSE @]
           /\ CASE ProcessSteps[ui.step] = "archive" ->
                     /\ \E r \in archive_products_if_selection_changed(
                                    sel.current, sel.last, pdir, posix) :
                           /\ pdir' = r.dir
                           /\ ares' = [state |-> "selection", before |-> pdir,
                                       path |-> r.path, moved |-> r.moved,
                                       failed |-> r.failed]
                     /\ UNCHANGED <<sel, pc>>
                [] ProcessSteps[ui.step] = "record" ->
                     /\ sel' = [sel EXCEPT !.last = [set |-> TRUE, val |-> sel.current]]
                     /\ UNCHANGED <<pdir, ares, pc>>
                [] ProcessSteps[ui.step] = "start" ->
                     /\ pc' = "w_entry"
                     /\ UNCHANGED <<pdir, ares, sel>>
    /\ UNCHANGED <<posix, meta, prog, exe, catVars, codecVars, covVars, dlRest, signals>>

\* The download worker ends: its error signal reaches _on_download_error
\* (lines 217-219), its finished signal _on_download_finished (lines
\* 210-215), which clears the processing state unless the download
\* succeeded and then starts the PEA worker (lines 221-236).
DownloadEnds ==
    /\ pc = "w_entry"
    /\ pc' = "idle"
    /\ \E how \in {"download_error", "download_failed", "download_ok"} :
          ui' = IF how = "download_ok"
                THEN [ui EXCEPT !.pea = TRUE, !.ended = "none"]
                ELSE [ui EXCEPT !.processing = FALSE, !.runs = @ - 1, !.ended = how]
    /\ UNCHANGED <<archVars, meta, prog, exe, catVars, codecVars, covVars, dlRest, signals>>

PeaEndsKeepsLock ==
    /\ ui.pea
    /\ \E how \in {"pea_finished", "pea_error"} :
          ui' = [ui EXCEPT !.pea = FALSE, !.runs = @ - 1, !.ended = how,
                           !.processing = (how = "pea_error")]
    /\ UNCHANGED <<archVars, meta, prog, exe, catVars, codecVars, covVars, dlVars>>

\* PeaExecutionWorker.run ends with finished or error (workers.py lines
\* 91-99); _on_pea_finished and _on_pea_error clear the processing state
\* (lines 238-245).
PeaEnds ==
    /\ ui.pea
    /\ \E how \in {"pea_finished", "pea_error"} :
          ui' = [ui EXCEPT !.pea = FALSE, !.runs = @ - 1, !.ended = how,
                           !.processing = FALSE]
    /\ UNCHANGED <<archVars, meta, prog, exe, catVars, codecVars, covVars, dlVars>>

\* PeaExecutionWorker.run (workers.py lines 91-99): execute_config returns
\* or raises, and finished or error is emitted.
PeaRunEnds ==
    /\ kind = "Pea"
    /\ pc = "pea_run"
    /\ pc' = "ended"
    /\ \E sig \in {"finished_ok", "error"} : Emit(sig)
    /\ UNCHANGED <<disk, corrupt, kind, stop, batch, pos, att, resp, outcome, cur,
                   stopInBatch, snap, covVars, auxVars>>

\* PeaExecutionWorker.stop (lines 79-89), called at any moment: Execution
\* has no stop_all, so the process is left alone, and finished is emitted
\* by stop() itself.
PeaStop ==
    /\ kind = "Pea"
    /\ ~stop
    /\ stop' = TRUE
    /\ Emit("finished_stopped")
    /\ UNCHANGED <<disk, corrupt, kind, pc, batch, pos, att, resp, outcome, cur,
                   stopInBatch, snap, covVars, auxVars>>

\* The thread of start_metadata_download_thread (download_products_https
\* lines 85-91) has written its files and ends.
MetadataThreadEnds ==
    /\ ui.bg
    /\ ui' = [ui EXCEPT !.bg = FALSE]
    /\ UNCHANGED <<archVars, meta, prog, exe, catVars, codecVars, covVars, dlVars>>

(***************************************************************************)
(* Broadcast-ephemeris urls and the metadata batch: get_brdc_urls,         *)
(* download_metadata (app/models/dl_products.py)                           *)
(***************************************************************************)
\* The module-level list as loaded: auxiliary files, the EOP file last.
METADATA == <<Txt.ATX, EOPName>>

\* lines 279-281: the url made for reference_dt; year and day of year of
\* reference_dt are all of it that varies.
brdc_url(reference_dt) ==
    Txt.BRDC \o SubSeq(strftime(reference_dt), 1, 7) \o <<"0", "0", "0", "0", "_">>
        \o Txt.P01D \o Txt.MN \o Txt.GZ

\* get_brdc_urls: reference_dt starts one day before start_time and keeps
\* its time of day; the loop runs while end_time - reference_dt > 0.
get_brdc_urls(start_time, end_time) ==
    LET reference_dt(k) == start_time - Day + k * Day
        passes == CHOOSE n \in 0..((end_time - start_time) \div Day + 2) :
                      /\ ~(end_time - reference_dt(n) > 0)
                      /\ \A k \in 0..(n - 1) : end_time - reference_dt(k) > 0
    IN  [k \in 1..passes |-> brdc_url(reference_dt(k - 1))]

\* download_metadata on the list `metadata` the module holds at the call.
\* With a window, dl_urls is the value of METADATA.extend(...): the list is
\* extended in place and the value is None, which line 340 of
\* download_products takes as "no urls"; the rows are an empty DataFrame.
download_metadata(metadata, given, start_time, end_time) ==
    IF given
    THEN [METADATA |-> metadata \o get_brdc_urls(start_time, end_time), downloads |-> <<>>]
    ELSE [METADATA |-> metadata, downloads |-> metadata]

MetaIdle ==
    [state |-> "idle", METADATA |-> <<>>, given |-> FALSE, urls |-> <<>>,
     downloads |-> <<>>, calls |-> 0]

\* PPPWorker.run line 172 (or any caller): get_brdc_urls on the window.
GetBrdcUrls ==
    /\ meta.state = "loaded"
    /\ meta' = [meta EXCEPT !.state = "urls", !.urls = get_brdc_urls(win.start, win.end)]
    /\ UNCHANGED <<ui, prog, exe, catVars, codecVars, archVars, covVars, dlVars>>

\* A download_metadata call, with or without the window.
DownloadMetadata ==
    /\ meta.state \in {"loaded", "called"}
    /\ meta.calls < MaxCalls
    /\ \E given \in BOOLEAN :
          LET r == download_metadata(meta.METADATA, given, win.start, win.end)
          IN  meta' = [meta EXCEPT !.state = "called", !.given = given,
                                   !.METADATA = r.METADATA, !.downloads = r.downloads,
                                   !.calls = @ + 1]
    /\ UNCHANGED <<ui, prog, exe, catVars, codecVars, archVars, covVars, dlVars>>

(***************************************************************************)
(* Progress events of download_file (lines 235-252)                        *)
(*                                                                         *)
(* percent = int(downloaded / total_size * 100) is computed in binary64:   *)
(* the quotient is rounded to 53 significant bits, the product with 100 is *)
(* rounded again, int() truncates.  A significand is kept as five limbs of *)
(* 13 bits below the leading limb, most significant first; the sizes used  *)
(* are below 1024 bytes.                                                   *)
(***************************************************************************)
\* Carries of a limb sequence propagated towards the leading limb.
RECURSIVE Carry(_)
Carry(l) ==
    IF Len(l) = 1 THEN l
    ELSE LET n == Len(l)
         IN  Carry([i \in 1..(n - 1) |->
                       IF i = n - 1 THEN l[i] + l[n] \div 8192 ELSE l[i]])
                 \o <<l[n] % 8192>>

\* downloaded / total_size for 0 < downloaded <= total_size, rounded to
\* nearest, ties to even: the value is m * 2^(-52 - s).
fdiv(downloaded, total_size) ==
    LET s == CHOOSE k \in 0..10 :
                 /\ downloaded * 2^k >= total_size
                 /\ k > 0 => downloaded * 2^(k - 1) < total_size
        r0 == (downloaded * 2^s) % total_size
        q1 == (r0 * 8192) \div total_size
        r1 == (r0 * 8192) % total_size
        q2 == (r1 * 8192) \div total_size
        r2 == (r1 * 8192) % total_size
        q3 == (r2 * 8192) \div total_size
        r3 == (r2 * 8192) % total_size
        q4 == (r3 * 8192) \div total_size
        r4 == (r3 * 8192) % total_size
        up == 2 * r4 > total_size \/ (2 * r4 = total_size /\ q4 % 2 = 1)
    IN  [m |-> Carry(<<1, q1, q2, q3, q4 + (IF up THEN 1 ELSE 0)>>), s |-> s]

\* line 251: int(downloaded / total_size * 100)
percent(downloaded, total_size) ==
    LET x == fdiv(downloaded, total_size)
        p == Carry([i \in 1..5 |-> x.m[i] * 100])
        unit == IF p[1] < 128 THEN 64 ELSE 128
        low == p[5] % unit
        up == 2 * low > unit \/ (2 * low = unit /\ (p[5] \div unit) % 2 = 1)
        rounded == Carry([p EXCEPT ![5] = @ - low + (IF up THEN unit ELSE 0)])
    IN  rounded[1] \div 2^(x.s)

ProgIdle ==
    [state |-> "idle", file |-> <<>>, status |-> 0, total |-> 0, downloaded |-> 0,
     event |-> [filename |-> <<>>, percent |-> 0], last |-> 0, emitted |-> FALSE]

\* lines 235-244 for a remote file of `size` bytes and a partial of
\* `partial` bytes: 206 appends to the partial and counts its bytes in both
\* numbers, any other success status rewrites it from byte 0.
Opened(file, status, size, partial) ==
    [ProgIdle EXCEPT !.state = "open", !.file = file, !.status = status,
                     !.total = IF status = 206 THEN (size - partial) + partial ELSE size,
                     !.downloaded = IF status = 206 THEN partial ELSE 0]

\* lines 245-252: a chunk is written and the progress callback is called.
ProgressChunk ==
    /\ prog.state = "open"
    /\ \E chunk \in {1, 28, 29} :
          /\ prog.downloaded + chunk <= prog.total
          /\ prog' = [prog EXCEPT
                        !.downloaded = @ + chunk,
                        !.event = [filename |-> prog.file,
                                   percent |-> percent(prog.downloaded + chunk, prog.total)],
                        !.last = IF prog.emitted THEN prog.event.percent ELSE 0,
                        !.emitted = TRUE,
                        !.state = IF prog.downloaded + chunk = prog.total
                                  THEN "complete" ELSE "open"]
    /\ UNCHANGED <<ui, meta, exe, catVars, codecVars, archVars, covVars, dlVars>>

(***************************************************************************)
(* Execution.__init__ (app/models/execution.py)                            *)
(***************************************************************************)
\* load_yaml of app.utils.yaml: the mapping written in the file; raises
\* when there is no file.
load_yaml(file) == [ok |-> file.ex, config |-> [yaml |-> file.data]]

ExecutionNeverCopies(config_file, template_file, copy_fails) ==
    [raised |-> ~load_yaml(config_file).ok, config_file |-> config_file,
     config |-> load_yaml(config_file).config]

\* lines 27-44: a config file that exists is loaded; otherwise the
\* template is copied to the path (RuntimeError when the copy fails:
\* template missing, directory not writable) and the copy is loaded.
Execution(config_file, template_file, copy_fails) ==
    IF config_file.ex
    THEN [raised |-> FALSE, config_file |-> config_file,
          config |-> load_yaml(config_file).config]
    ELSE IF copy_fails \/ ~template_file.ex
         THEN [raised |-> TRUE, config_file |-> config_file,
               config |-> load_yaml(NoFile).config]
         ELSE [raised |-> FALSE, config_file |-> File(template_file.data),
               config |-> load_yaml(File(template_file.data)).config]

ExeIdle ==
    [state |-> "idle", before |-> NoFile, config_file |-> NoFile, template |-> NoFile,
     copy_fails |-> FALSE, raised |-> FALSE, config |-> load_yaml(NoFile).config]

\* An Execution is constructed on the config path.
Construct ==
    /\ exe.state = "new"
    /\ \E copy_fails \in BOOLEAN :
          LET r == Execution(exe.config_file, exe.template, copy_fails)
          IN  exe' = [exe EXCEPT !.state = "constructed", !.before = exe.config_file,
                                 !.config_file = r.config_file, !.copy_fails = copy_fails,
                                 !.raised = r.raised, !.config = r.config]
    /\ UNCHANGED <<ui, meta, prog, catVars, codecVars, archVars, covVars, dlVars>>

CatalogIdle ==
    /\ win = [start |-> 0, end |-> 0, given |-> FALSE, formats |-> {}]
    /\ listing = NoListing
    /\ cat = CatIdle

CodecIdle ==
    /\ entry = NoEntry
    /\ record = NoRec
    /\ trip = TripIdle

ArchivalIdle ==
    /\ pdir = NoDir
    /\ posix = TRUE
    /\ sel = [kind |-> "none", current |-> [none |-> TRUE], last |-> Unset]
    /\ ares = ArchIdle

CallsIdle ==
    /\ ui = UiIdle
    /\ meta = MetaIdle
    /\ prog = ProgIdle
    /\ exe = ExeIdle

AuxIdle == CatalogIdle /\ CodecIdle /\ ArchivalIdle /\ CallsIdle

(***************************************************************************)
(* Specifications                                                          *)
(***************************************************************************)
DlIdle ==
    /\ kind = "PPP"
    /\ stop = FALSE
    /\ pc = "idle"
    /\ batch = 0
    /\ pos = 0
    /\ att = 0
    /\ resp = NoResp
    /\ outcome = [f \in Files |-> "pending"]
    /\ cur = NoCall
    /\ signals = <<>>
    /\ stopInBatch = FALSE

Init ==
    /\ data = {}
    /\ cov = CovIdle
    /\ disk \in [Files -> UNION {Residue(f) : f \in Files}]
    /\ \A f \in Files : disk[f] \in Residue(f)
    /\ corrupt \in SUBSET {f \in Files : Compressed(f)}
    /\ snap = [present |-> FALSE, disk |-> EmptyDisk]
    /\ DlIdle
    /\ AuxIdle

WorkerStep ==
    \/ RunEntry \/ DpLog \/ DfStart \/ DpReturn \/ DfLeftover \/ DfAttempt
    \/ DfExhausted \/ RespError \/ Resp206 \/ Resp200 \/ RespNoLength
    \/ StreamChunk \/ StreamFail \/ StreamEnd \/ DfExtract \/ DpExcept
    \/ AfterMetadata \/ BeforeProducts \/ AfterProducts

Next ==
    \/ \E k \in {"PPP", "Meta"} : StartRun(k)
    \/ Stop
    \/ WorkerStep

Spec == Init /\ [][Next]_vars

\* The worker thread is not starved: every step it can take is eventually
\* taken (the server answers or the 30 s timeout of the request fires).
FairSpec == Spec /\ WF_vars(WorkerStep)

InitCov ==
    /\ data \in RowSets(MaxRows)
    /\ cov = CovIdle
    /\ disk = EmptyDisk
    /\ corrupt = {}
    /\ snap = [present |-> FALSE, disk |-> EmptyDisk]
    /\ DlIdle
    /\ AuxIdle

NextCov == Analyze \/ OnCddisReady

SpecCov == InitCov /\ [][NextCov]_vars

\* A worker without products on an archive of up to MaxEntries entries.
InitCat ==
    /\ data = {}
    /\ cov = CovIdle
    /\ disk = EmptyDisk
    /\ corrupt = {}
    /\ snap = [present |-> FALSE, disk |-> EmptyDisk]
    /\ DlIdle
    /\ CallsIdle
    /\ win \in Windows
    /\ listing \in Listings(MaxEntries)
    /\ cat = CatIdle
    /\ CodecIdle
    /\ ArchivalIdle

NextCat ==
    \/ StartRun("Cat")
    \/ Stop
    \/ CatEntry
    \/ FetchWeekOk
    \/ FetchWeekFail
    \/ CatReturn

SpecCat == InitCat /\ [][NextCat]_vars

\* One listing entry, or one row, taken through the codec.
InitCodec ==
    /\ data = {}
    /\ cov = CovIdle
    /\ disk = EmptyDisk
    /\ corrupt = {}
    /\ snap = [present |-> FALSE, disk |-> EmptyDisk]
    /\ DlIdle
    /\ CallsIdle
    /\ CatalogIdle
    /\ \/ entry \in Entries \cup PreEntries /\ record = NoRec
       \/ entry = NoEntry /\ record \in PreRows \cup PostRows
    /\ trip = TripIdle
    /\ ArchivalIdle

NextCodec == RoundTripName \/ RoundTripRecord

SpecCodec == InitCodec /\ [][NextCodec]_vars

\* One archival call on a products directory.
InitArch ==
    /\ data = {}
    /\ cov = CovIdle
    /\ disk = EmptyDisk
    /\ corrupt = {}
    /\ snap = [present |-> FALSE, disk |-> EmptyDisk]
    /\ DlIdle
    /\ CallsIdle
    /\ CatalogIdle
    /\ CodecIdle
    /\ pdir \in Dirs
    /\ posix \in BOOLEAN
    /\ sel \in Keys
    /\ ares = ArchIdle

NextArch == ArchiveOnSelection \/ ArchiveOnRinex

SpecArch == InitArch /\ [][NextArch]_vars

\* The entry points called from the interactive thread, one at a time:
\* Process requests on a products directory, get_brdc_urls and
\* download_metadata on a window, the transfer of one file with a
\* progress callback, the construction of an Execution, and the run of a
\* PeaExecutionWorker with stop() called at any moment.
InitCalls ==
    /\ data = {}
    /\ cov = CovIdle
    /\ disk = EmptyDisk
    /\ corrupt = {}
    /\ snap = [present |-> FALSE, disk |-> EmptyDisk]
    /\ stop = FALSE /\ batch = 0 /\ pos = 0 /\ att = 0 /\ resp = NoResp
    /\ outcome = [f \in Files |-> "pending"]
    /\ cur = NoCall /\ signals = <<>> /\ stopInBatch = FALSE
    /\ CodecIdle
    /\ listing = NoListing
    /\ cat = CatIdle
    /\ posix \in BOOLEAN
    /\ ares = ArchIdle
    /\ \/ /\ pdir \in {d \in Dirs : Cardinality(d.top) <= 1}
          /\ ui = [UiIdle EXCEPT !.bg = TRUE]
          /\ kind = "PPP" /\ pc = "idle"
          /\ sel \in {[kind |-> "process", current |-> [none |-> TRUE], last |-> k.last] :
                         k \in {k \in Keys : k.kind = "selection"}}
          /\ CatalogIdle /\ meta = MetaIdle /\ prog = ProgIdle /\ exe = ExeIdle
       \/ /\ ui = UiIdle
          /\ kind = "PPP" /\ pc = "idle"
          /\ win \in Windows
          /\ meta = [MetaIdle EXCEPT !.state = "loaded", !.METADATA = METADATA]
          /\ pdir = NoDir /\ sel = [kind |-> "none", current |-> [none |-> TRUE], last |-> Unset]
          /\ prog = ProgIdle /\ exe = ExeIdle
       \/ /\ ui = UiIdle
          /\ kind = "PPP" /\ pc = "idle"
          /\ prog \in {Opened(<<"a", ".", "s", "p", "3">>, status, size, partial) :
                          status \in {200, 206}, size \in {3, 100}, partial \in {0, 2, 20}}
          /\ CatalogIdle /\ meta = MetaIdle /\ exe = ExeIdle
          /\ pdir = NoDir /\ sel = [kind |-> "none", current |-> [none |-> TRUE], last |-> Unset]
       \/ /\ ui = UiIdle
          /\ kind = "PPP" /\ pc = "idle"
          /\ exe \in {[ExeIdle EXCEPT !.state = "new", !.config_file = c, !.template = t] :
                         c \in {NoFile, File(<<"user">>)}, t \in {NoFile, File(<<"default">>)}}
          /\ CatalogIdle /\ meta = MetaIdle /\ prog = ProgIdle
          /\ pdir = NoDir /\ sel = [kind |-> "none", current |-> [none |-> TRUE], last |-> Unset]
       \/ /\ ui = UiIdle
          /\ kind = "Pea" /\ pc = "pea_run"
          /\ CatalogIdle /\ meta = MetaIdle /\ prog = ProgIdle /\ exe = ExeIdle
          /\ pdir = NoDir /\ sel = [kind |-> "none", current |-> [none |-> TRUE], last |-> Unset]

NextCalls ==
    \/ ProcessClicked \/ ProcessStep \/ DownloadEnds \/ PeaEnds \/ MetadataThreadEnds
    \/ GetBrdcUrls \/ DownloadMetadata
    \/ ProgressChunk
    \/ Construct
    \/ PeaRunEnds \/ PeaStop

SpecCalls == InitCalls /\ [][NextCalls]_vars

\* The statements of an accepted request run to the end of the handler, and
\* the download worker and the PEA process end (a batch is finite and every
\* request has a timeout; execute_config returns when the process exits).
RunStep == ProcessStep \/ DownloadEnds \/ PeaEnds

\* For termination the content of the products directory does not matter:
\* the requests are made on directories without top-level files.
InitRun == InitCalls /\ pdir.top = {}

FairCalls == InitRun /\ [][NextCalls]_vars /\ WF_vars(RunStep)


(***************************************************************************)
(* Properties                                                              *)
(***************************************************************************)
\* The download_file call recorded in cur has ended.
CallEnded == cur.file # "none" /\ pc \in {"dp_next", "dp_except", "ended"}

\* The file found at `filepath` of f (the compressed path of a compressed url).
Downloaded(f) == IF Compressed(f) THEN disk[f].comp ELSE disk[f].final

GapInEveryOrder(g) == \A s \in SortedByDate(g) : GapIn(s)

GapInNoOrder(g) == \A s \in SortedByDate(g) : ~GapIn(s)

\* C1: whenever a (provider, solution_type, format) group of the record set
\* has a gap between adjacent records, the call completes and the group's
\* provider is not in the returned set.
C1_GapExcludesProvider ==
    cov.state = "done" =>
        \A key \in GroupKeys(data) :
            GapInEveryOrder(GroupOf(data, key)) =>
                ~cov.raised /\ key[1] \notin cov.centers

\* C2: a provider whose groups are all gap-free is in the returned set,
\* whatever gaps the other providers have.
C2_GapFreeProviderIncluded ==
    cov.state = "done" =>
        \A c \in {r.analysis_center : r \in data} :
            (\A key \in GroupKeys(data) :
                key[1] = c => GapInNoOrder(GroupOf(data, key)))
            => ~cov.raised /\ c \in cov.centers

\* C3: a download_file call that found neither target nor compressed
\* artifact, was not cancelled and saw a RequestException on every attempt
\* issued exactly 3 requests and ended failed; no call issues more than 3.
C3_RetryCeiling ==
    /\ cur.reqs <= 3
    /\ (CallEnded /\ cur.absent /\ cur.allErr /\ ~cur.cancelled)
          => (outcome[cur.file] = "failed" /\ cur.reqs = 3)

C3_Witness ==
    /\ CallEnded /\ cur.absent /\ cur.allErr /\ ~cur.cancelled
    /\ outcome[cur.file] = "failed" /\ cur.reqs = 3

\* C4: once download_file has used up its retries and raised, no .part
\* file of that url is left in the directory.
C4_NoPartAfterExhaustion ==
    (CallEnded /\ att = MAX_RETRIES /\ outcome[cur.file] = "failed")
        => ~disk[cur.file].part.ex

\* C5: a request carries Range: bytes=N- for the N bytes of the .part file;
\* under a 206 answer the bytes received are appended to those N bytes, and
\* the file that results from the completed transfer is the whole remote
\* content, of the remote length.
C5_ResumeAppends ==
    /\ pc \in {"df_request", "df_stream"} => cur.range = cur.from
    /\ (pc = "df_stream" /\ resp.status = 206)
          => disk[Cur].part.data \o resp.body = Remote(Cur)
    /\ (cur.xfer /\ cur.via = 206)
          => IF Compressed(cur.file) /\ outcome[cur.file] = "done"
             THEN disk[cur.file].final = File(Target(cur.file))
             ELSE /\ Downloaded(cur.file) = File(Remote(cur.file))
                  /\ Len(Downloaded(cur.file).data) = RemoteLen

C5_Witness ==
    /\ cur.xfer /\ cur.via = 206 /\ cur.from > 0 /\ cur.from < RemoteLen
    /\ outcome[cur.file] = "done"

\* C6: after a 416 answer the call is not retried and the file is not
\* reported failed.
C6_416IsComplete ==
    (cur.got416 /\ ~cur.cancelled)
        => (pc # "df_attempt" /\ outcome[cur.file] # "failed")

\* C7: a batch entered with every decompressed target present issues no
\* request and leaves the directory as it found it, and when it returns
\* every one of its files was skipped.
C7_IdempotentBatch ==
    snap.present =>
        /\ disk = snap.disk
        /\ cur.reqs = 0
        /\ pc \notin {"df_leftover", "df_attempt", "df_request", "df_stream", "df_extract"}
        /\ pc = "w_after1" => \A i \in 1..Len(MetaList) : outcome[MetaList[i]] = "skipped"
        /\ pc = "w_after2" => \A i \in 1..Len(ProdList) : outcome[ProdList[i]] = "skipped"

C7_Witness ==
    snap.present /\ pc = "w_after2" /\ outcome["brdc"] = "skipped"

\* C8: when no stop is requested, the files of a batch are handled in list
\* order, every one of them reaches a terminal outcome whichever of them
\* failed, and the run does not end with the error signal.
C8_FailureDoesNotAbort ==
    ~stop =>
        /\ batch # 0 =>
              \A i \in 1..Len(BatchList(batch)) :
                  /\ i < pos => outcome[BatchList(batch)[i]] \in Terminal
                  /\ i > pos => outcome[BatchList(batch)[i]] = "pending"
        /\ pc = "w_after1" => \A i \in 1..Len(MetaList) : outcome[MetaList[i]] \in Terminal
        /\ pc = "w_after2" => \A i \in 1..Len(ProdList) : outcome[ProdList[i]] \in Terminal
        /\ pc = "ended" => signals = <<"finished_ok">>

C8_Witness ==
    /\ ~stop /\ pc = "w_after2"
    /\ outcome["sp3"] = "failed" /\ outcome["brdc"] = "done"

\* C9 as stated: an ended call has one of the three terminal outcomes, and
\* done only after a transfer that ran to completion in that call.
C9_DoneOnlyByTransfer ==
    CallEnded =>
        /\ outcome[cur.file] \in Terminal
        /\ outcome[cur.file] = "done" => cur.xfer

\* A download_file call is in progress.
InCall == pc \in {"df_leftover", "df_attempt", "df_request", "df_stream", "df_extract"}

\* C9 as amended: every call that was started ends in one terminal outcome,
\* which is then kept; done is reached only after a completed transfer or
\* after extracting a compressed artifact found on disk, and for a
\* compressed url with the target decompressed and the artifact removed.
C9_TaskTerminates ==
    /\ [](CallEnded =>
            /\ outcome[cur.file] \in Terminal
            /\ outcome[cur.file] = "done" =>
                  /\ cur.xfer \/ cur.leftover
                  /\ Compressed(cur.file) =>
                        /\ disk[cur.file].final = File(Target(cur.file))
                        /\ ~disk[cur.file].comp.ex)
    /\ [][\A f \in Files : outcome[f] \in Terminal => outcome'[f] = outcome[f]]_vars
    /\ InCall ~> CallEnded

C9_Witness ==
    CallEnded /\ outcome[cur.file] = "done" /\ cur.leftover /\ ~cur.xfer

\* C10: a run during whose batch stop() was requested ends with the
\* finished signal carrying a cancelled message, not with error.
C10_CancelledNotError ==
    (pc = "ended" /\ stopInBatch) => signals = <<"finished_cancelled">>

\* C11: once stop() has been requested, no further request is sent: no
\* retry attempt of the file in hand is started and no later file of the
\* batch (or of a later batch) is requested.
C11_StopBetweenFiles ==
    [][stop =>
        /\ (pc' = "df_request" => pc = "df_request")
        /\ cur'.reqs \in {cur.reqs, 0}
        /\ batch' \in {batch, 0}]_vars

C11_Witness ==
    /\ stop /\ pc = "ended" /\ cur.file = "sp3" /\ cur.reqs = 1
    /\ outcome["brdc"] = "pending"

\* C12: a request is sent through the authenticated session exactly when
\* its url lies on the archive; a request to any other host never is, on
\* any attempt.
C12_CredentialScoping ==
    cur.reqs > 0 => (cur.auth <=> Host(cur.file) = "cddis.nasa.gov")

C12_Witness ==
    /\ cur.file = "atx" /\ cur.reqs = 2 /\ ~cur.auth
    /\ outcome["sp3"] = "pending"

\* The catalog build has returned its record set.
CatDone == pc = "ended" /\ cat.returned

RowSet == {cat.rows[i] : i \in 1..Len(cat.rows)}

Crawled == {cat.fetched[i] : i \in 1..Len(cat.fetched)}

\* The formats asked for: the default, or ["sp3"].
Requested == IF win.given THEN {Txt.SP3} ELSE {Txt.SP3, Txt.CLK, Txt.BIA}

InWindow(r) == win.start <= r.date /\ r.date <= win.end

\* C13: when the listing fetch of a week fails, the build raises at once:
\* the run ends with the error signal alone, no record set is returned, the
\* failed week is the last one fetched.
C13_StrictCatalog ==
    cat.failed # 0 =>
        /\ pc = "ended"
        /\ signals = <<"error">>
        /\ ~cat.returned /\ cat.rows = <<>>
        /\ cat.fetched[Len(cat.fetched)] = cat.failed
        /\ \A i \in 1..Len(cat.fetched) : i < Len(cat.fetched) => cat.fetched[i] < cat.failed

C13_Witness ==
    /\ cat.failed = EraWeek /\ Len(cat.weeks) = 3 /\ cat.products # <<>>
    /\ signals = <<"error">>

\* C14: entries that do not decode never make the build raise: a build
\* whose fetches all succeeded returns, and every decodable entry of every
\* listing that passes the filter is in its result, whatever precedes it.
C14_DecodeSkip ==
    (pc = "ended" /\ cat.k > 0 /\ cat.failed = 0) =>
        /\ cat.returned /\ ~cat.raised
        /\ signals = <<"finished_df">>
        /\ \A w \in Crawled : \A i \in 1..Len(listing[w]) :
              LET d == decode(w, listing[w][i])
              IN  (d.ok /\ Keep(d.rec, win)) => d.rec \in RowSet

C14_Witness ==
    /\ CatDone
    /\ Len(listing[EraWeek - 1]) = 2
    /\ decode(EraWeek - 1, listing[EraWeek - 1][1]).err = "IndexError"
    /\ decode(EraWeek - 1, listing[EraWeek - 1][2]).ok
    /\ decode(EraWeek - 1, listing[EraWeek - 1][2]).rec \in RowSet

\* C15: every returned record has a requested format and a date within
\* [start, end], and every decodable entry of a crawled week with both is
\* in the result.
C15_CatalogFilter ==
    CatDone =>
        /\ \A r \in RowSet : r.format \in Requested /\ InWindow(r)
        /\ \A w \in Crawled : \A i \in 1..Len(listing[w]) :
              LET d == decode(w, listing[w][i])
              IN  (d.ok /\ d.rec.format \in Requested /\ InWindow(d.rec))
                      => d.rec \in RowSet

C15_Witness ==
    /\ CatDone
    /\ \E r \in RowSet : r.date = win.end
    /\ \E w \in Crawled : \E i \in 1..Len(listing[w]) :
          LET d == decode(w, listing[w][i])
          IN  d.ok /\ d.rec.format \in Requested /\ d.rec.date < win.start

\* C16: the weeks fetched are week(start), week(start) + 1, ... in this
\* order, none beyond week(end); a build that returns has fetched each week
\* overlapping [start, end] once and no other.
C16_WeekEnumeration ==
    /\ \A i \in 1..Len(cat.fetched) :
          /\ cat.fetched[i] = date_to_gpswk(win.start) + i - 1
          /\ cat.fetched[i] <= date_to_gpswk(win.end)
    /\ CatDone =>
          /\ Len(cat.fetched) = date_to_gpswk(win.end) - date_to_gpswk(win.start) + 1
          /\ Crawled = {w \in CatWeeks : /\ gpswk_to_date(w, 0) <= win.end
                                         /\ win.start < gpswk_to_date(w + 1, 0)}

C16_Witness ==
    CatDone /\ cat.fetched = <<EraWeek - 1, EraWeek, EraWeek + 1>>

\* C17: no two returned records agree on provider, project, date, solution
\* type and format.
C17_UniqueKey ==
    CatDone =>
        \A i, j \in 1..Len(cat.rows) :
            i # j =>
                <<cat.rows[i].analysis_center, cat.rows[i].project, cat.rows[i].date,
                  cat.rows[i].solution_type, cat.rows[i].format>>
                # <<cat.rows[j].analysis_center, cat.rows[j].project, cat.rows[j].date,
                    cat.rows[j].solution_type, cat.rows[j].format>>

\* C18: a valid post-2237 listing name that decodes is rebuilt unchanged.
C18_NameRoundTrip ==
    (trip.state = "name" /\ trip.ok) => trip.name = entry.name

\* C19: the filename built for a row decodes, in the listing of its week,
\* to the fields of the row that the era's grammar carries.
C19_RecordRoundTrip ==
    trip.state = "record" =>
        /\ trip.ok
        /\ trip.rec.analysis_center = record.analysis_center
        /\ trip.rec.date = record.date
        /\ trip.rec.period = record.period
        /\ trip.rec.format = record.format
        /\ date_to_gpswk(record.date) >= EraWeek => trip.rec = record

\* A product file of one of the five archived formats.
IsProduct(n) ==
    \E fmt \in {Txt.SP3, Txt.CLK, Txt.BIA, <<"I", "O", "N">>, <<"T", "R", "O">>} :
        Match(<<"*", ".">> \o fmt, n, FALSE)

\* C20: after the selection check, if the selections differ every top-level
\* product file has been moved into the new archive folder while broadcast
\* navigation and EOP files stay; if they are equal nothing has moved and
\* the result is null.
C20_SelectionArchival ==
    ares.state = "selection" =>
        IF sel.last.set /\ sel.last.val = sel.current
        THEN pdir = ares.before /\ ares.path = 0
        ELSE (pdir.exists /\ ares.failed = {}) =>
                \A n \in ares.before.top :
                    /\ IsProduct(n) =>
                          /\ n \notin pdir.top
                          /\ n \in pdir.archived[Len(pdir.archived)].files
                    /\ n \in {BRDCName, EOPName} => n \in pdir.top

\* C21: an archival call returns the archive path exactly when it moved a
\* file, and a call that found no file to archive leaves the products
\* directory, files and subdirectories, as it was.
C21_ArchivalNoOp ==
    ares.state # "idle" =>
        /\ (ares.path # 0) <=> (ares.moved # {})
        /\ (ares.moved = {} /\ ares.failed = {}) => pdir = ares.before

\* C22: in an accepted Process request the download worker is started only
\* after the archival check of that request has run, file moves included,
\* and after the last selection has been set to the current one; nothing
\* is archived or recorded while that download runs.
C22_ArchivalPrecedesDownload ==
    [][/\ (pc # "w_entry" /\ pc' = "w_entry") =>
             /\ ui.processing
             /\ ares.state = "selection"
             /\ sel.last = [set |-> TRUE, val |-> sel.current]
             /\ UNCHANGED <<pdir, sel, ares>>
       /\ pc = "w_entry" => UNCHANGED <<pdir, sel, ares>>]_vars

C22_Witness ==
    /\ pc = "w_entry"
    /\ ares.moved # {}
    /\ pdir # ares.before
    /\ sel.last = [set |-> TRUE, val |-> sel.current]

\* C23: get_brdc_urls(start, end) is exactly one url for each calendar day
\* from the day of start - 1 day through the day of end, in ascending
\* order.
C23_BrdcUrlsEveryDay ==
    meta.state = "urls" =>
        LET first == (win.start - Day) \div Day
            last == win.end \div Day
        IN  meta.urls = [k \in 1..(last - first + 1) |-> brdc_url((first + k - 1) * Day)]

\* C24: the batch of a download_metadata call with a window holds every
\* auxiliary metadata url and the BRDC url of every day get_brdc_urls
\* gives for the window; without a window it is exactly the auxiliary
\* metadata urls.
C24_MetadataBatch ==
    meta.state = "called" =>
        LET batchUrls == {meta.downloads[i] : i \in 1..Len(meta.downloads)}
            brdc == get_brdc_urls(win.start, win.end)
        IN  IF meta.given
            THEN /\ \A i \in 1..Len(METADATA) : METADATA[i] \in batchUrls
                 /\ \A i \in 1..Len(brdc) : brdc[i] \in batchUrls
            ELSE meta.downloads = METADATA

\* C25: a download_file call of a compressed file whose transfer ran to
\* completion, whose payload decodes and which was not cancelled ends done
\* with the decompressed content at the final path and with neither the
\* compressed artifact nor the .part file in the directory.
C25_DecompressionOnSuccess ==
    (CallEnded /\ cur.xfer /\ Compressed(cur.file)
        /\ cur.file \notin corrupt /\ ~cur.cancelled)
        => /\ outcome[cur.file] = "done"
           /\ disk[cur.file] = [part |-> NoFile, comp |-> NoFile,
                                final |-> File(Target(cur.file))]

C25_Witness ==
    /\ CallEnded /\ cur.xfer /\ ~cur.cancelled
    /\ Codec(cur.file) = "lzw" /\ cur.file \notin corrupt
    /\ outcome[cur.file] = "done"
    /\ disk[cur.file].final = File(Target(cur.file))
    /\ ~disk[cur.file].comp.ex

\* C26: a download_file call whose transferred payload does not decode
\* ends failed with the compressed file still in the directory, holding
\* the payload, and without a .part file; unless a stop is requested the
\* batch goes on with the next file and the outcomes of the other files
\* are not touched.
C26_DecompressionFailure ==
    /\ []((CallEnded /\ cur.xfer /\ cur.file \in corrupt /\ ~cur.cancelled)
            => /\ outcome[cur.file] = "failed"
               /\ disk[cur.file].comp = File(Remote(cur.file))
               /\ ~disk[cur.file].part.ex)
    /\ [][(pc = "df_extract" /\ pc' = "dp_except" /\ ~cur'.cancelled)
            => \A f \in Files \ {cur.file} : outcome'[f] = outcome[f]]_vars
    /\ [][(pc = "dp_except" /\ pc' # pc /\ ~stop /\ cur.xfer /\ cur.file \in corrupt)
            => (pc' = "dp_next" /\ pos' = pos + 1 /\ batch' = batch
                /\ outcome' = outcome /\ signals' = signals)]_vars

C26_Witness ==
    /\ pc = "w_after2" /\ ~stop
    /\ "sp3" \in corrupt /\ outcome["sp3"] = "failed"
    /\ disk["sp3"].comp = File(Remote("sp3")) /\ ~disk["sp3"].part.ex
    /\ outcome["brdc"] = "done" /\ "brdc" \notin corrupt

\* C29: when the request was sent with a .part file of N > 0 bytes and the
\* answer is 200 with the whole file, the bytes of the partial are dropped
\* and the file is written from offset 0: during the transfer the partial
\* and the rest of the body make up the remote content, and the completed
\* file is the remote content, of the remote length.
C29_FullRestartOn200 ==
    /\ (pc = "df_stream" /\ resp.status = 200 /\ cur.from > 0)
          => disk[Cur].part.data \o resp.body = Remote(Cur)
    /\ (cur.xfer /\ cur.via = 200 /\ cur.from > 0)
          => IF Compressed(cur.file) /\ outcome[cur.file] = "done"
             THEN disk[cur.file].final = File(Target(cur.file))
             ELSE /\ Downloaded(cur.file) = File(Remote(cur.file))
                  /\ Len(Downloaded(cur.file).data) = RemoteLen

C29_Witness ==
    /\ CallEnded /\ cur.xfer /\ cur.via = 200 /\ cur.from > 0
    /\ ~Compressed(cur.file)
    /\ outcome[cur.file] = "done"
    /\ disk[cur.file].final = File(Remote(cur.file))

\* C30: download_file on a compressed url whose target is absent and whose
\* compressed artifact is in the directory extracts the artifact before
\* any request; when the artifact decodes the call returns the target
\* without a request, and it goes on to the download only when the
\* extraction failed.
C30_LeftoverArtifact ==
    /\ [](pc = "df_leftover" =>
            cur.reqs = 0 /\ disk[Cur].comp.ex /\ ~disk[Cur].final.ex)
    /\ [](cur.leftover =>
            /\ cur.reqs = 0
            /\ outcome[cur.file] = "done"
            /\ disk[cur.file].final = File(Target(cur.file)))
    /\ [][(pc = "dp_next" /\ pc' \in {"df_attempt", "df_leftover"})
            => (pc' = "df_leftover"
                  <=> (Compressed(cur'.file) /\ disk[cur'.file].comp.ex))]_vars
    /\ [][(pc = "df_leftover" /\ pc' # pc)
            => IF Decompress(Cur, disk[Cur].comp.data).ok
               THEN pc' = "dp_next" /\ cur'.leftover /\ cur'.reqs = 0
               ELSE pc' \in {"df_attempt", "dp_except"} /\ ~cur'.leftover]_vars

C30_Witness ==
    /\ CallEnded /\ cur.file = "brdc" /\ cur.leftover /\ cur.reqs = 0
    /\ disk["brdc"] = [part |-> NoFile, comp |-> NoFile, final |-> File(Target("brdc"))]

\* C27: every progress event of a transfer carries the name of the file
\* and percent = floor(downloaded * 100 / total), both counts including the
\* bytes kept from a resumed partial; the percent lies in 0..100, does not
\* decrease within the attempt and is 100 after the last chunk, for fresh,
\* resumed and restarted transfers.
C27_ProgressPercent ==
    prog.emitted =>
        /\ prog.event.filename = prog.file
        /\ prog.event.percent = (prog.downloaded * 100) \div prog.total
        /\ prog.event.percent \in 0..100
        /\ prog.event.percent >= prog.last
        /\ prog.state = "complete" => prog.event.percent = 100

C31_ProcessingLock ==
    /\ [][(ui.processing /\ ui'.clicks # ui.clicks)
            => /\ ui'.rejected
               /\ ui'.processing
               /\ ui'.runs = ui.runs /\ ui'.pea = ui.pea /\ ui'.step = ui.step
               /\ UNCHANGED <<pdir, sel, ares, pc>>]_vars
    /\ [](ui.runs <= 1)
    /\ [](ui.runs = 1 => ui.processing)

C31_Witness ==
    /\ ui.processing /\ ui.rejected /\ ui.runs = 1
    /\ pc = "w_entry"
    /\ sel.last = [set |-> TRUE, val |-> sel.current]
    /\ ares.state = "selection"

\* C32: the metadata download thread started when the main window is
\* constructed and a user-started download batch never write into the
\* products directory at the same time.
C32_ExclusiveWriter ==
    ~(ui.bg /\ pc = "w_entry")

\* C38: once a Process request has been accepted and is_processing set,
\* is_processing returns to false, whether the run ends with a download
\* error, an unsuccessful download, a finished PEA execution or a PEA error.
C38_ProcessingReleased ==
    ui.processing ~> ~ui.processing

C38_Witness ==
    /\ ~ui.processing /\ ui.ended = "pea_error" /\ ui.runs = 0
    /\ sel.last = [set |-> TRUE, val |-> sel.current]

\* C33: get_valid_analysis_centers on a catalog without records returns
\* the empty provider set and does not raise, and _on_cddis_ready then
\* shows the placeholder provider "None".
C33_EmptyResult ==
    (cov.state \in {"done", "ready"} /\ data = {}) =>
        /\ ~cov.raised
        /\ cov.centers = {}
        /\ cov.state = "ready" => cov.PPP_provider = <<"None">>

C33_Witness ==
    /\ data = {} /\ cov.state = "ready" /\ ~cov.raised
    /\ cov.PPP_provider = <<"None">>

\* C34: in every state a file at the final, decompressed path of a task
\* holds the complete content of a fully transferred and successfully
\* decompressed download.
C34_FinalPathComplete ==
    \A f \in Files : disk[f].final.ex => disk[f].final = File(Target(f))

\* C35: the module-level list of auxiliary metadata urls is the same after
\* any sequence of download_metadata calls as before, and a call without a
\* window downloads the same urls whatever calls came before it.
C35_FixedMetadataList ==
    meta.state \in {"urls", "called"} =>
        /\ meta.METADATA = METADATA
        /\ (meta.state = "called" /\ ~meta.given) => meta.downloads = METADATA

\* C36: within one download_file call an attempt that fails with a
\* transport error leaves the k bytes written so far in the .part file, the
\* next attempt asks for Range: bytes=k-, and the file of the transfer that
\* succeeds after such failures is the remote content, no byte lost or
\* duplicated.
C36_RetryKeepsProgress ==
    /\ [][(pc = "df_stream" /\ pc' = "df_attempt")
            => disk'[Cur] = disk[Cur]]_vars
    /\ [][(pc = "df_attempt" /\ pc' = "df_request" /\ att > 0)
            => /\ cur'.range = Len(disk[Cur].part.data)
               /\ disk'[Cur].part = disk[Cur].part]_vars
    /\ []((pc = "df_stream" /\ att > 0 /\ resp.status \in {200, 206})
            => disk[Cur].part.data \o resp.body = Remote(Cur))
    /\ []((CallEnded /\ cur.xfer /\ cur.reqs > 1)
            => IF Compressed(cur.file) /\ outcome[cur.file] = "done"
               THEN disk[cur.file].final = File(Target(cur.file))
               ELSE Downloaded(cur.file) = File(Remote(cur.file)))

C36_Witness ==
    /\ CallEnded /\ cur.xfer /\ cur.reqs = 2 /\ att = 1
    /\ cur.via = 206 /\ cur.from > 0 /\ cur.from < RemoteLen
    /\ cur.file = "atx" /\ disk["atx"].final = File(Remote("atx"))

\* C37: a run of a background worker emits exactly one terminal signal,
\* finished or error: never two, whenever stop() is called, and one when
\* the run has ended.
C37_SingleTerminalSignal ==
    /\ Len(signals) <= 1
    /\ pc = "ended" => Len(signals) = 1

\* C39: for a pre-2237 listing entry that the decoder accepts (day digit
\* 0..7), the url that download_products rebuilds from the decoded row names
\* the GPS week of the listing and a file with the week digits and the day
\* digit of the listed name.
C39_PreEraUrlFidelity ==
    (trip.state = "name" /\ trip.ok /\ entry.week < EraWeek) =>
        /\ url_of(trip.rec).week = entry.week
        /\ Slice(url_of(trip.rec).name, 3, 7) = Slice(entry.name, 3, 7)
        /\ url_of(trip.rec).name[8] = entry.name[8]

\* the same for the entries whose day digit is 1..7
C39_DigitsOneToSeven ==
    (trip.state = "name" /\ trip.ok /\ entry.week < EraWeek /\ entry.name[8] # "0") =>
        url_of(trip.rec) = entry

\* a listed day digit 0 is rebuilt as 7, in the same week
C39_DigitZeroBecomesSeven ==
    (trip.state = "name" /\ trip.ok /\ entry.week < EraWeek /\ entry.name[8] = "0") =>
        /\ url_of(trip.rec).week = entry.week
        /\ url_of(trip.rec).name = [entry.name EXCEPT ![8] = "7"]
        /\ trip.rec.period = 7

\* the name of a partial download
IsPart(n) == Match(<<"*", ".", "p", "a", "r", "t">>, n, TRUE)

MatchesProductPattern(n) ==
    \E i \in 1..Len(product_patterns) : Match(product_patterns[i], n, posix)

\* C40: an archival call, on a RINEX change or a selection change, moves
\* only top-level files of the products directory that match a product
\* pattern; tables/ and the earlier archive folders are left as they were,
\* no top-level file is deleted, and the antenna model and the .part files
\* of partial downloads stay where they are.
C40_ArchivalFrame ==
    ares.state # "idle" =>
        /\ ares.moved \subseteq ares.before.top
        /\ \A n \in ares.moved : MatchesProductPattern(n)
        /\ pdir.tables = ares.before.tables
        /\ SubSeq(pdir.archived, 1, Len(ares.before.archived)) = ares.before.archived
        /\ pdir.top \cup ares.moved = ares.before.top
        /\ \A n \in ares.before.top :
              (~MatchesProductPattern(n) \/ IsPart(n) \/ n = Txt.ATX) => n \in pdir.top

\* the frame without the .part files: what is moved is a top-level file
\* matching a pattern, and the subdirectories, the files matching no
\* pattern and the number of files are kept
C40_OnlyMatchingMoved ==
    ares.state # "idle" =>
        /\ ares.moved \subseteq ares.before.top
        /\ \A n \in ares.moved : MatchesProductPattern(n)
        /\ pdir.tables = ares.before.tables
        /\ SubSeq(pdir.archived, 1, Len(ares.before.archived)) = ares.before.archived
        /\ pdir.top \cup ares.moved = ares.before.top
        /\ \A n \in ares.before.top : ~MatchesProductPattern(n) => n \in pdir.top

\* the only .part file an archival call moves is that of the broadcast
\* navigation file, and only on a RINEX change
C40_OnlyBrdcPartMoves ==
    \A n \in ares.moved :
        IsPart(n) => (ares.state = "rinex" /\ Match(product_patterns[2], n, posix))

====
